---------------------------- MODULE Spec2Model ----------------------------
(***************************************************************************)
(* Model of prepare_data.py: the pipeline that turns a table of           *)
(* (author, language) translation records into the author-language,       *)
(* author-author and language-language graphs, scores them, merges the    *)
(* annotations of the previously written snapshot and writes the result.  *)
(*                                                                         *)
(* Strings are sequences of character codes, so that str.strip(), the      *)
(* ordering of strings and the falsiness of "" are what Python makes them. *)
(* A Python dict is a function whose DOMAIN is its key set; where the code *)
(* depends on the insertion order the keys are kept in a sequence.         *)
(* Floats are modelled as exact rationals <<numerator, denominator>>.      *)
(*                                                                         *)
(* A run builds, merges and writes the three graphs in the order of        *)
(* main().  networkx, leiden and infomap are providers whose results are   *)
(* chosen nondeterministically; degree centrality is computed.             *)
(***************************************************************************)
EXTENDS Integers, Sequences, FiniteSets, TLC

VARIABLES
    pc,         \* position of the run in main(), or the exception that ended it
    columns,    \* the header of the CSV file
    table,      \* the rows pd.read_csv returns: <<author cell, language cell>> records
    records,    \* _load_records' DataFrame
    counts,     \* _author_language_counts' DataFrame
    author_stats,               \* _author_stats: author -> totalWeight, languageCount
    language_stats,             \* _language_stats: language -> totalWeight, authorCount
    author_language_breakdown,  \* author -> (language -> weight)
    language_popularity,        \* language -> share of all translations
    centralization_scores,              \* author -> weighted score
    centralization_scores_normalized,   \* author -> normalized score
    engine_graph,               \* the graph of a call of _compute_centrality_scores
    engine_metrics,             \* the metrics of a call of _compute_centrality_scores
    centrality_scores,          \* metric -> (node -> score), as the engine returned it
    centrality_tiers,           \* metric -> (node -> tier)
    community_assignments,      \* algorithm -> (node -> community id), as detected
    argv,                       \* the options of the run, as argparse returns them
    args,                       \* the options of the run, parsed
    bipartite,                  \* the author-language graph of the run
    author_graph,               \* the author-author graph of the run
    language_graph,             \* the language-language graph of the run
    files,                      \* output path -> <<>>, <<the JSON document>> or other text
    run,                        \* the number of the run
    invocations                 \* concurrent invocations of main(): what each holds

varsLoad == <<columns, table, records>>
varsAgg == <<author_stats, language_stats, author_language_breakdown>>
varsScore == <<language_popularity, centralization_scores, centralization_scores_normalized>>
varsTier == <<engine_graph, engine_metrics, centrality_scores, centrality_tiers>>
varsGraph == <<community_assignments, bipartite, author_graph, language_graph>>
varsRun == <<argv, args, files, run>>
vars == <<pc, columns, table, records, counts, varsAgg, varsScore, varsTier, varsGraph, varsRun,
          invocations>>

---------------------------------------------------------------------------
(* Bounds of the model *)

MaxRows == 3
MaxWeight == 2
MaxScore == 2

---------------------------------------------------------------------------
(* Strings *)

\* The characters str.strip() removes (the ASCII ones).
Whitespace == {9, 10, 11, 12, 13, 28, 29, 30, 31, 32}

\* The cell pandas gives a missing field: no string.
NaN == <<-1>>

EmptyStr == <<>>
StrA == <<65>>
StrB == <<66>>
StrC == <<67>>
StrD == <<68>>
StrE == <<101>>
StrF == <<102>>
StrG == <<103>>

RECURSIVE StrLess(_, _)
\* Python's a < b on strings: lexicographic on the code points.
StrLess(a, b) ==
    IF b = <<>> THEN FALSE
    ELSE IF a = <<>> THEN TRUE
    ELSE IF Head(a) # Head(b) THEN Head(a) < Head(b)
    ELSE StrLess(Tail(a), Tail(b))

StrLE(a, b) == a = b \/ StrLess(a, b)

RECURSIVE lstrip(_)
lstrip(s) ==
    IF s = <<>> \/ Head(s) \notin Whitespace THEN s ELSE lstrip(Tail(s))

RECURSIVE rstrip(_)
rstrip(s) ==
    IF s = <<>> \/ s[Len(s)] \notin Whitespace THEN s
    ELSE rstrip(SubSeq(s, 1, Len(s) - 1))

\* str.strip()
strip(s) == rstrip(lstrip(s))

---------------------------------------------------------------------------
(* Generic helpers *)

EmptyMap == [k \in {} |-> 0]

\* d[k] = v on a dict
Put(d, k, v) == [j \in DOMAIN d \cup {k} |-> IF j = k THEN v ELSE d[j]]

\* d.get(k, default)
Get(d, k, default) == IF k \in DOMAIN d THEN d[k] ELSE default

Range(s) == {s[i] : i \in DOMAIN s}

RECURSIVE SortedStrs(_)
\* sorted(S) for a set of strings
SortedStrs(S) ==
    IF S = {} THEN <<>>
    ELSE LET m == CHOOSE x \in S : \A y \in S : StrLE(x, y)
         IN  <<m>> \o SortedStrs(S \ {m})

RECURSIVE SumSeq(_)
SumSeq(s) == IF s = <<>> THEN 0 ELSE Head(s) + SumSeq(Tail(s))

Min(a, b) == IF a <= b THEN a ELSE b

---------------------------------------------------------------------------
(* 4.1 Record Loader & Aggregator *)

\* The columns dropna(subset=...) looks up (line 55).
REQUIRED_COLUMNS == {"author", "language"}

\* A variant in which the loader goes on whatever the columns are.
load_error_ignored(header) == ""

\* The exception _load_records ends with, "" when it returns: dropna raises
\* KeyError for a name of subset that is not a column.
load_error(header) == IF REQUIRED_COLUMNS \subseteq header THEN "" ELSE "KeyError"

\* The cell of a row under a column; read_csv fills a cell the line lacks
\* with NaN.
cell(row, column) == IF column \in DOMAIN row THEN row[column] ELSE NaN

\* df.dropna(subset=["author", "language"])
dropna(df) ==
    SelectSeq(df, LAMBDA row : cell(row, "author") # NaN /\ cell(row, "language") # NaN)

\* _load_records: drop incomplete rows, trim author and language.
load_records(df) ==
    LET kept == dropna(df)
    IN  [i \in DOMAIN kept |->
            [author |-> strip(kept[i].author), language |-> strip(kept[i].language)]]

\* The order groupby(["author", "language"]) sorts its keys in.
PairLE(p, q) ==
    \/ StrLess(p[1], q[1])
    \/ p[1] = q[1] /\ StrLE(p[2], q[2])

RECURSIVE SortedPairs(_)
\* The keys of a two-column groupby, in its sorted order
SortedPairs(S) ==
    IF S = {} THEN <<>>
    ELSE LET m == CHOOSE x \in S : \A y \in S : PairLE(x, y)
         IN  <<m>> \o SortedPairs(S \ {m})

RECURSIVE group_sizes(_, _)
\* groupby(...).size(): one pass over the rows, one counter per key.
group_sizes(df, sizes) ==
    IF df = <<>> THEN sizes
    ELSE LET key == <<Head(df).author, Head(df).language>>
         IN  group_sizes(Tail(df), Put(sizes, key, Get(sizes, key, 0) + 1))

\* A variant that records each key once, whatever its number of rows.
author_language_counts_presence(df) ==
    LET sizes == group_sizes(df, EmptyMap)
        keys == SortedPairs(DOMAIN sizes)
    IN  [i \in DOMAIN keys |->
            [author |-> keys[i][1], language |-> keys[i][2], weight |-> 1]]

\* _author_language_counts: the (author, language, weight) rows, sorted by key.
author_language_counts(df) ==
    LET sizes == group_sizes(df, EmptyMap)
        keys == SortedPairs(DOMAIN sizes)
    IN  [i \in DOMAIN keys |->
            [author |-> keys[i][1], language |-> keys[i][2], weight |-> sizes[keys[i]]]]


\* The rows of a DataFrame column-filtered to one key value, in row order.
RowsWhere(df, column, value) == SelectSeq(df, LAMBDA row : row[column] = value)

Column(df, column) == {df[i][column] : i \in DOMAIN df}

\* _author_stats: groupby("author").agg(sum of weight, nunique of language)
author_stats_of(cnt) ==
    [a \in Column(cnt, "author") |->
        LET rows == RowsWhere(cnt, "author", a)
        IN  [totalWeight |-> SumSeq([i \in DOMAIN rows |-> rows[i].weight]),
             languageCount |-> Cardinality(Column(rows, "language"))]]

\* _language_stats: groupby("language").agg(sum of weight, nunique of author)
language_stats_of(cnt) ==
    [l \in Column(cnt, "language") |->
        LET rows == RowsWhere(cnt, "language", l)
        IN  [totalWeight |-> SumSeq([i \in DOMAIN rows |-> rows[i].weight]),
             authorCount |-> Cardinality(Column(rows, "author"))]]

RECURSIVE breakdown_rows(_, _)
\* _author_language_breakdown's loop: breakdown[author][language] = weight
breakdown_rows(cnt, breakdown) ==
    IF cnt = <<>> THEN breakdown
    ELSE LET row == Head(cnt)
             langs == Get(breakdown, row.author, EmptyMap)
         IN  breakdown_rows(Tail(cnt),
                 Put(breakdown, row.author, Put(langs, row.language, row.weight)))

author_language_breakdown_of(cnt) == breakdown_rows(cnt, EmptyMap)

---------------------------------------------------------------------------
(* Floats, as exact rationals <<numerator, denominator>> in lowest terms *)

RECURSIVE Gcd(_, _)
Gcd(a, b) == IF b = 0 THEN a ELSE Gcd(b, a % b)

Abs(a) == IF a < 0 THEN -a ELSE a

Rat(n, d) ==
    LET g == Gcd(Abs(n), Abs(d))
        sign == IF d < 0 THEN -1 ELSE 1
    IN  <<sign * (n \div g), sign * (d \div g)>>

Float(n) == <<n, 1>>
RatAdd(x, y) == Rat(x[1] * y[2] + y[1] * x[2], x[2] * y[2])
RatMul(x, y) == Rat(x[1] * y[1], x[2] * y[2])
RatDiv(x, y) == Rat(x[1] * y[2], x[2] * y[1])
RatSub(x, y) == Rat(x[1] * y[2] - y[1] * x[2], x[2] * y[2])
RatLE(x, y) == x[1] * y[2] <= y[1] * x[2]
RatLess(x, y) == x[1] * y[2] < y[1] * x[2]

---------------------------------------------------------------------------
(* 4.2 Popularity & Centralization Scorer *)

\* The index of a grouped DataFrame, in its (sorted) order.
Index(stats) == SortedStrs(DOMAIN stats)

\* A variant that divides by the number of languages instead of the volume.
language_popularity_ratios_by_count(lstats) ==
    LET index == Index(lstats)
        total_translations == SumSeq([i \in DOMAIN index |-> lstats[index[i]].totalWeight])
    IN  IF total_translations <= 0
        THEN [lang \in DOMAIN lstats |-> Float(0)]
        ELSE [lang \in DOMAIN lstats |-> Rat(lstats[lang].totalWeight, Len(index))]

\* _language_popularity_ratios
language_popularity_ratios(lstats) ==
    LET index == Index(lstats)
        total_translations == SumSeq([i \in DOMAIN index |-> lstats[index[i]].totalWeight])
    IN  IF total_translations <= 0
        THEN [lang \in DOMAIN lstats |-> Float(0)]
        ELSE [lang \in DOMAIN lstats |-> Rat(lstats[lang].totalWeight, total_translations)]

RECURSIVE centralization_sums(_, _, _, _)
\* The inner loop of _compute_author_centralization over one author's
\* languages: <<weighted_sum, weight_total>>.
centralization_sums(keys, langs, language_ratios, acc) ==
    IF keys = <<>> THEN acc
    ELSE LET lang == Head(keys)
             lang_ratio == Get(language_ratios, lang, Float(0))
             term == RatMul(RatMul(lang_ratio, Float(100)), Float(langs[lang]))
         IN  centralization_sums(Tail(keys), langs, language_ratios,
                 <<RatAdd(acc[1], term), RatAdd(acc[2], Float(langs[lang]))>>)

\* A variant whose normalized score divides by the number of languages.
compute_author_centralization_by_language_count(breakdown, language_ratios) ==
    LET sums(a) == centralization_sums(SortedStrs(DOMAIN breakdown[a]), breakdown[a],
                                       language_ratios, <<Float(0), Float(0)>>)
    IN  <<[a \in DOMAIN breakdown |-> sums(a)[1]],
          [a \in DOMAIN breakdown |->
              IF RatLess(Float(0), sums(a)[2])
              THEN RatDiv(sums(a)[1], Float(Cardinality(DOMAIN breakdown[a])))
              ELSE Float(0)]>>

\* _compute_author_centralization: <<weighted_scores, normalized_scores>>
compute_author_centralization(breakdown, language_ratios) ==
    LET sums(a) == centralization_sums(SortedStrs(DOMAIN breakdown[a]), breakdown[a],
                                       language_ratios, <<Float(0), Float(0)>>)
    IN  <<[a \in DOMAIN breakdown |-> sums(a)[1]],
          [a \in DOMAIN breakdown |->
              IF RatLess(Float(0), sums(a)[2]) THEN RatDiv(sums(a)[1], sums(a)[2])
              ELSE Float(0)]>>

NothingAggregated ==
    /\ author_stats = EmptyMap
    /\ language_stats = EmptyMap
    /\ author_language_breakdown = EmptyMap
    /\ language_popularity = EmptyMap
    /\ centralization_scores = EmptyMap
    /\ centralization_scores_normalized = EmptyMap

\* An nx.Graph: its node set and the weight of each edge, an edge being the
\* set of its one or two endpoints.
EmptyGraph == [nodes |-> {}, weight |-> EmptyMap]

\* No call of the engine on its own.
NoCall ==
    /\ engine_graph = EmptyGraph
    /\ engine_metrics = <<>>

NothingScored ==
    /\ NoCall
    /\ centrality_scores = EmptyMap
    /\ centrality_tiers = EmptyMap

NoGraph == [meta |-> EmptyMap, nodes |-> <<>>, links |-> <<>>]

\* No invocation runs beside the one the other variables describe.
NoInvocations == <<>>

NothingBuilt ==
    /\ invocations = NoInvocations
    /\ community_assignments = EmptyMap
    /\ bipartite = NoGraph
    /\ author_graph = NoGraph
    /\ language_graph = NoGraph

---------------------------------------------------------------------------
(* The command line: argparse's namespace and the parsers of its strings *)

DEFAULT_COMMUNITY_ALGORITHMS == <<"louvain", "leiden", "infomap">>
CENTRALITY_METRICS == <<"degree", "closeness", "betweenness", "eigenvector", "languagecentral">>
GRAPH_TARGETS == {"author-language", "author-author", "language-language"}

\* The words of the command line that the model writes as TLA+ strings.
WORDS == {"louvain", "leiden", "infomap", "greedy", "degree", "closeness", "betweenness", "eigenvector",
          "languagecentral", "author-language", "author-author", "language-language", "none", "all", "bogus"}

\* The characters of a word.
Text(word) ==
    [name \in WORDS |->
        CASE
             name = "louvain" -> <<108, 111, 117, 118, 97, 105, 110>>
          [] name = "leiden" -> <<108, 101, 105, 100, 101, 110>>
          [] name = "infomap" -> <<105, 110, 102, 111, 109, 97, 112>>
          [] name = "greedy" -> <<103, 114, 101, 101, 100, 121>>
          [] name = "degree" -> <<100, 101, 103, 114, 101, 101>>
          [] name = "closeness" -> <<99, 108, 111, 115, 101, 110, 101, 115, 115>>
          [] name = "betweenness" -> <<98, 101, 116, 119, 101, 101, 110, 110, 101, 115, 115>>
          [] name = "eigenvector" -> <<101, 105, 103, 101, 110, 118, 101, 99, 116, 111, 114>>
          [] name = "languagecentral" -> <<108, 97, 110, 103, 117, 97, 103, 101, 99, 101, 110, 116, 114, 97, 108>>
          [] name = "author-language" -> <<97, 117, 116, 104, 111, 114, 45, 108, 97, 110, 103, 117, 97, 103, 101>>
          [] name = "author-author" -> <<97, 117, 116, 104, 111, 114, 45, 97, 117, 116, 104, 111, 114>>
          [] name = "language-language" -> <<108, 97, 110, 103, 117, 97, 103, 101, 45, 108, 97, 110, 103, 117, 97, 103, 101>>
          [] name = "none" -> <<110, 111, 110, 101>>
          [] name = "all" -> <<97, 108, 108>>
          [] name = "bogus" -> <<98, 111, 103, 117, 115>>][word]

\* The word of a text that is one of the options.
word_of(text, options) == CHOOSE word \in options : Text(word) = text

Comma == 44

RECURSIVE split(_)
\* str.split(",")
split(s) ==
    IF \A i \in DOMAIN s : s[i] # Comma THEN <<s>>
    ELSE LET at == CHOOSE i \in DOMAIN s : s[i] = Comma /\ \A j \in 1 .. i - 1 : s[j] # Comma
         IN  <<SubSeq(s, 1, at - 1)>> \o split(SubSeq(s, at + 1, Len(s)))

\* str.lower(), on the letters A-Z
lowercase(s) == [i \in DOMAIN s |-> IF s[i] \in 65 .. 90 THEN s[i] + 32 ELSE s[i]]

\* [part.strip().lower() for part in raw_value.split(",") if part.strip()]
values_of(raw_value) ==
    LET parts == SelectSeq(split(raw_value), LAMBDA part : strip(part) # EmptyStr)
    IN  [i \in DOMAIN parts |-> lowercase(strip(parts[i]))]

\* [val for val in values if val in options], as words
sanitized(values, options) ==
    LET kept == SelectSeq(values, LAMBDA val : \E word \in options : Text(word) = val)
    IN  [i \in DOMAIN kept |-> word_of(kept[i], options)]

\* A variant that drops the word none and keeps the other names.
parse_algorithms_dropping_none(raw_value, valid_options) ==
    IF raw_value = <<>> THEN <<>>
    ELSE sanitized(values_of(raw_value[1]), Range(valid_options))

\* _parse_algorithms. An option is <<>> when the flag is absent, <<text>>
\* otherwise.
parse_algorithms(raw_value, valid_options) ==
    IF raw_value = <<>> THEN <<>>
    ELSE LET values == values_of(raw_value[1])
         IN  IF values = <<>> THEN <<>>
             ELSE IF \E i \in DOMAIN values : values[i] = Text("none") THEN <<>>
             ELSE sanitized(values, Range(valid_options))

\* _parse_centrality_metrics
parse_centrality_metrics(raw_value) ==
    IF raw_value = <<>> THEN <<>>
    ELSE LET values == values_of(raw_value[1])
         IN  IF values = <<>> THEN <<>>
             ELSE IF \E i \in DOMAIN values : values[i] = Text("none") THEN <<>>
             ELSE sanitized(values, Range(CENTRALITY_METRICS))

\* A variant in which a missing flag stands for all graphs.
parse_targets_default_all(raw_value) ==
    IF raw_value = <<>> THEN GRAPH_TARGETS
    ELSE LET values == Range(values_of(raw_value[1]))
         IN  IF values = {} THEN {}
             ELSE IF Text("all") \in values THEN GRAPH_TARGETS
             ELSE {target \in GRAPH_TARGETS : Text(target) \in values}

\* _parse_targets
parse_targets(raw_value) ==
    IF raw_value = <<>> THEN {}
    ELSE LET values == Range(values_of(raw_value[1]))
         IN  IF values = {} THEN {}
             ELSE IF Text("all") \in values THEN GRAPH_TARGETS
             ELSE {target \in GRAPH_TARGETS : Text(target) \in values}

\* The namespace argparse gives when no flag is passed (lines 875-946).
DefaultArgv ==
    [community_algorithms |-> <<>>,
     language_community_algorithms |-> <<>>,
     centrality_metrics |-> <<>>,
     centrality_targets |-> <<>>,
     community_targets |-> <<>>,
     min_author_language_weight |-> 0,
     min_author_author_weight |-> 1,
     min_language_language_weight |-> 0,
     top_authors |-> 0,
     top_languages |-> 0]

\* community_targets after lines 977-982
community_targets_of(targets) == targets \ {"author-language"}

\* The options main() works with (lines 967-990), from the namespace.
parsed(namespace) ==
    [community_algorithms |->
         parse_algorithms(namespace.community_algorithms, DEFAULT_COMMUNITY_ALGORITHMS),
     language_community_algorithms |->
         parse_algorithms(namespace.language_community_algorithms, <<"greedy">>),
     centrality_metrics |-> parse_centrality_metrics(namespace.centrality_metrics),
     centrality_targets |-> parse_targets(namespace.centrality_targets),
     community_targets |-> community_targets_of(parse_targets(namespace.community_targets)),
     min_author_language_weight |-> namespace.min_author_language_weight,
     min_author_author_weight |-> namespace.min_author_author_weight,
     min_language_language_weight |-> namespace.min_language_language_weight,
     top_authors |-> namespace.top_authors,
     top_languages |-> namespace.top_languages]

\* The options before main() has parsed them.
DefaultArgs == parsed(DefaultArgv)

RECURSIVE joined(_)
\* ",".join(texts)
joined(texts) ==
    IF texts = <<>> THEN EmptyStr
    ELSE IF Len(texts) = 1 THEN texts[1]
    ELSE texts[1] \o <<Comma>> \o joined(Tail(texts))

\* "a,b,c" from the words a, b, c
csv(words) == joined([i \in DOMAIN words |-> Text(words[i])])

\* A word as a user may type it: capitalised, between blanks.
Typed(word) == <<32, Text(word)[1] - 32>> \o Tail(Text(word)) \o <<32>>

\* The flag given with these words.
Flag(words) == <<csv(words)>>

AUTHOR_LANGUAGE_PATH == "author_language_graph.json"
AUTHOR_AUTHOR_PATH == "author_author_graph.json"
LANGUAGE_LANGUAGE_PATH == "language_language_graph.json"
OutputPaths == {AUTHOR_LANGUAGE_PATH, AUTHOR_AUTHOR_PATH, LANGUAGE_LANGUAGE_PATH}

\* A run outside the pipeline proper: no options, no output.
NoRun ==
    /\ argv = DefaultArgv
    /\ args = DefaultArgs
    /\ files = [path \in OutputPaths |-> <<>>]
    /\ run = 0

---------------------------------------------------------------------------
(* 4.3 Centrality Engine: tiers *)


\* The percentiles of the two tier thresholds.
LowerPercentile == 34
UpperPercentile == 67

RECURSIVE SortedValues(_, _)
\* The values of a node -> score map in ascending order.
SortedValues(values, nodes) ==
    IF nodes = {} THEN <<>>
    ELSE LET n == CHOOSE x \in nodes : \A y \in nodes : RatLE(values[x], values[y])
         IN  <<values[n]>> \o SortedValues(values, nodes \ {n})

\* pd.Series(values).quantile(percent / 100), linear interpolation between
\* the two order statistics around position q * (n - 1).
quantile(values, percent) ==
    LET sorted == SortedValues(values, DOMAIN values)
        n == Len(sorted)
        position == percent * (n - 1)
        below == position \div 100
        above == IF position % 100 = 0 THEN below ELSE below + 1
        fraction == Rat(position % 100, 100)
    IN  RatAdd(sorted[below + 1],
               RatMul(fraction, RatSub(sorted[above + 1], sorted[below + 1])))

\* A variant with the two outer labels exchanged.
tier_of_labels_swapped(score, lower, upper) ==
    IF RatLE(upper, score) THEN "outer"
    ELSE IF RatLE(score, lower) THEN "central"
    ELSE "periphery"

\* The label of one score (lines 360-365).
tier_of(score, lower, upper) ==
    IF RatLE(upper, score) THEN "central"
    ELSE IF RatLE(score, lower) THEN "outer"
    ELSE "periphery"

\* _assign_centrality_tiers
assign_centrality_tiers(scores) ==
    [metric \in {m \in DOMAIN scores : scores[m] # EmptyMap} |->
        LET values == scores[metric]
            lower == quantile(values, LowerPercentile)
            upper == quantile(values, UpperPercentile)
        IN  [node \in DOMAIN values |-> tier_of(values[node], lower, upper)]]

---------------------------------------------------------------------------
(* 4.3 Centrality Engine: scores *)

RECURSIVE add_weighted_edges_from(_, _)
add_weighted_edges_from(graph, edges) ==
    IF edges = <<>> THEN graph
    ELSE LET e == Head(edges)
         IN  add_weighted_edges_from(
                 [nodes |-> graph.nodes \cup {e.source, e.target},
                  weight |-> Put(graph.weight, {e.source, e.target}, e.weight)],
                 Tail(edges))

add_nodes_from(graph, nodes) == [graph EXCEPT !.nodes = @ \cup nodes]

number_of_nodes(graph) == Cardinality(graph.nodes)
number_of_edges(graph) == Cardinality(DOMAIN graph.weight)

\* The degree of a node; a self-loop counts twice.
degree(graph, n) ==
    Cardinality({e \in DOMAIN graph.weight : n \in e})
        + Cardinality({e \in DOMAIN graph.weight : e = {n}})

\* nx.degree_centrality
degree_centrality(graph) ==
    IF number_of_nodes(graph) <= 1 THEN [n \in graph.nodes |-> Float(1)]
    ELSE [n \in graph.nodes |-> Rat(degree(graph, n), number_of_nodes(graph) - 1)]

\* An engine result is <<scores>>; <<>> stands for the NetworkXException of a
\* power iteration that fails to converge.
NoConvergence == <<>>

RECURSIVE centrality_loop_stopping(_, _, _, _)
\* A variant that ends the loop at an unknown name or a failed iteration.
centrality_loop_stopping(graph, metrics, engine, scores) ==
    IF metrics = <<>> THEN scores
    ELSE LET metric == Head(metrics)
             rest == Tail(metrics)
         IN  IF metric = "degree"
             THEN centrality_loop_stopping(graph, rest, engine,
                                           Put(scores, metric, degree_centrality(graph)))
             ELSE IF metric \in {"betweenness", "closeness"}
                     \/ (metric = "eigenvector" /\ engine[metric] # NoConvergence)
             THEN centrality_loop_stopping(graph, rest, engine,
                                           Put(scores, metric, engine[metric][1]))
             ELSE scores

\* _compute_centrality_scores. engine holds what networkx returns for the
\* metrics it computes by search or iteration.
RECURSIVE centrality_loop(_, _, _, _)
centrality_loop(graph, metrics, engine, scores) ==
    IF metrics = <<>> THEN scores
    ELSE LET metric == Head(metrics)
             rest == Tail(metrics)
         IN  IF metric = "degree"
             THEN centrality_loop(graph, rest, engine, Put(scores, metric, degree_centrality(graph)))
             ELSE IF metric \in {"betweenness", "closeness"}
             THEN centrality_loop(graph, rest, engine, Put(scores, metric, engine[metric][1]))
             ELSE IF metric = "eigenvector"
             THEN IF engine[metric] = NoConvergence
                  THEN centrality_loop(graph, rest, engine, scores)
                  ELSE centrality_loop(graph, rest, engine, Put(scores, metric, engine[metric][1]))
             ELSE centrality_loop(graph, rest, engine, scores)

\* The metrics the engine goes through (line 307).
requested_metrics(metrics) == IF metrics = <<>> THEN CENTRALITY_METRICS ELSE metrics

\* A variant that looks at the nodes only.
computable_with_nodes(graph) == ~(number_of_nodes(graph) = 0)

\* The graph is not too small for the engine (line 308).
computable(graph) == ~(number_of_nodes(graph) = 0 \/ number_of_edges(graph) = 0)

compute_centrality_scores(graph, metrics, engine) ==
    IF ~computable(graph) THEN EmptyMap
    ELSE centrality_loop(graph, requested_metrics(metrics), engine, EmptyMap)

\* sorted() on the names of metrics and algorithms: their alphabetical order.
NameOrder == <<"betweenness", "closeness", "degree", "eigenvector", "greedy",
               "infomap", "languagecentral", "leiden", "louvain">>

SortedNames(names) == SelectSeq(NameOrder, LAMBDA name : name \in names)

\* {metric: scores[metric].get(node) for metric in scores if value is not None}
node_values(scores, node) ==
    [metric \in {m \in DOMAIN scores : node \in DOMAIN scores[m]} |-> scores[metric][node]]

---------------------------------------------------------------------------
(* 4.4 Community Detection Adapter *)

\* enumerate(partition): node -> index of its community, counted from first.
assignments_of(parts, first) ==
    [n \in UNION Range(parts) |->
        (CHOOSE i \in DOMAIN parts : n \in parts[i]) - 1 + first]

\* [sorted(list(c)) for c in parts]
summary_of(parts) == [i \in DOMAIN parts |-> SortedStrs(parts[i])]

\* A variant without an entry for an algorithm that returned nothing.
author_communities_of_results_only(graph, community_algorithms, enable_communities, provider) ==
    LET runs == number_of_edges(graph) > 0 /\ number_of_nodes(graph) > 0
                    /\ enable_communities
        ran == {alg \in Range(community_algorithms) \cap DOMAIN provider :
                   runs /\ (alg = "louvain" \/ provider[alg] # <<>>)}
        first(alg) == IF alg = "infomap" THEN 1 ELSE 0
    IN  <<[alg \in ran |-> summary_of(provider[alg])],
          [alg \in ran |-> assignments_of(provider[alg], first(alg))]>>

\* The community pass of _build_author_author_graph (lines 552-599, 633,
\* 638-640): <<communities_summary, community_assignments>>. provider holds
\* the partition each backend returns, <<>> for a backend that is missing.
author_communities(graph, community_algorithms, enable_communities, provider) ==
    LET requested == Range(community_algorithms)
        runs == number_of_edges(graph) > 0 /\ number_of_nodes(graph) > 0
                    /\ enable_communities
        ran(alg) == runs /\ alg \in requested /\ (alg = "louvain" \/ provider[alg] # <<>>)
        first(alg) == IF alg = "infomap" THEN 1 ELSE 0
    IN  <<[alg \in requested |->
              IF alg \in DOMAIN provider /\ ran(alg) THEN summary_of(provider[alg]) ELSE <<>>],
          [alg \in requested |->
              IF alg \in DOMAIN provider /\ ran(alg) THEN assignments_of(provider[alg], first(alg))
              ELSE EmptyMap]>>

---------------------------------------------------------------------------
(* 4.6 Author-Author Projection Builder *)

RECURSIVE combinations2(_)
\* itertools.combinations(rows, 2), in its order
combinations2(rows) ==
    IF Len(rows) < 2 THEN <<>>
    ELSE [j \in 1 .. Len(rows) - 1 |-> <<rows[1], rows[j + 1]>>] \o combinations2(Tail(rows))

RECURSIVE grouped_pairs(_, _, _)
\* The pairs of rows within each group of counts.groupby(column), the groups
\* in key order.
grouped_pairs(cnt, column, keys) ==
    IF keys = <<>> THEN <<>>
    ELSE combinations2(RowsWhere(cnt, column, Head(keys)))
             \o grouped_pairs(cnt, column, Tail(keys))

NoOverlap == [keys |-> <<>>, language |-> EmptyMap, translation |-> EmptyMap]

\* A variant that adds the larger of the two volumes.
overlap_step_max(overlap, pair) ==
    LET author_a == pair[1].author
        author_b == pair[2].author
        key == IF StrLE(author_a, author_b) THEN <<author_a, author_b>>
               ELSE <<author_b, author_a>>
        larger == IF pair[1].weight >= pair[2].weight THEN pair[1].weight ELSE pair[2].weight
    IN  [keys |-> IF key \in DOMAIN overlap.language THEN overlap.keys
                  ELSE Append(overlap.keys, key),
         language |-> Put(overlap.language, key, Get(overlap.language, key, 0) + 1),
         translation |-> Put(overlap.translation, key,
                             Get(overlap.translation, key, 0) + larger)]

\* One pass of the loop body at lines 515-522 over the two defaultdicts; keys
\* keeps their insertion order.
overlap_step(overlap, pair) ==
    LET author_a == pair[1].author
        author_b == pair[2].author
        key == IF StrLE(author_a, author_b) THEN <<author_a, author_b>>
               ELSE <<author_b, author_a>>
        shared_translations == Min(pair[1].weight, pair[2].weight)
    IN  [keys |-> IF key \in DOMAIN overlap.language THEN overlap.keys
                  ELSE Append(overlap.keys, key),
         language |-> Put(overlap.language, key, Get(overlap.language, key, 0) + 1),
         translation |-> Put(overlap.translation, key,
                             Get(overlap.translation, key, 0) + shared_translations)]

RECURSIVE overlap_loop(_, _)
overlap_loop(pairs, overlap) ==
    IF pairs = <<>> THEN overlap
    ELSE overlap_loop(Tail(pairs), overlap_step(overlap, Head(pairs)))

\* language_overlap_weights and translation_overlap_weights (lines 509-522)
author_overlap_weights(cnt) ==
    overlap_loop(grouped_pairs(cnt, "language", SortedStrs(Column(cnt, "language"))), NoOverlap)

\* A variant that keeps an edge only above the minimum.
author_edge_kept_strict(language_weight, min_edge_weight) == language_weight > min_edge_weight

\* The filter at lines 526-527.
author_edge_kept(language_weight, min_edge_weight) == ~(language_weight < min_edge_weight)

\* edge_list (lines 524-536)
author_edge_list(cnt, min_edge_weight) ==
    LET overlap == author_overlap_weights(cnt)
        kept == SelectSeq(overlap.keys,
                    LAMBDA key : author_edge_kept(overlap.language[key], min_edge_weight))
    IN  [i \in DOMAIN kept |->
            [source |-> kept[i][1],
             target |-> kept[i][2],
             weight |-> overlap.language[kept[i]],
             sharedLanguageCount |-> overlap.language[kept[i]],
             sharedTranslationCount |-> Get(overlap.translation, kept[i], 0)]]

\* A variant that collects the sources only.
seen_endpoints_sources_only(edge_list) == {edge_list[i].source : i \in DOMAIN edge_list}

\* {edge["source"]} | {edge["target"]}
seen_endpoints(edge_list) ==
    {edge_list[i].source : i \in DOMAIN edge_list} \cup {edge_list[i].target : i \in DOMAIN edge_list}

\* The nx.Graph of an edge list (lines 541-545, 749-753).
graph_of(edge_list) ==
    add_weighted_edges_from(add_nodes_from(EmptyGraph, seen_endpoints(edge_list)), edge_list)

RECURSIVE languages_by_weight(_, _)
\* sorted(lang_breakdown.items(), key=weight, reverse=True): the sort is
\* stable, so equal weights stay in the dict's order, which is the counts'.
languages_by_weight(langs, left) ==
    IF left = {} THEN <<>>
    ELSE LET top == CHOOSE l \in left : \A m \in left :
                        \/ langs[l] > langs[m]
                        \/ langs[l] = langs[m] /\ StrLE(l, m)
         IN  <<[language |-> top, weight |-> langs[top]]>>
                 \o languages_by_weight(langs, left \ {top})

\* A variant that leaves the custom metric out.
author_centrality_scores_without_custom(graph, seen_authors, centrality_metrics, cscores, enable_centrality, engine) ==
    LET metrics == SelectSeq(centrality_metrics, LAMBDA m : m # "languagecentral")
    IN  IF ~(number_of_edges(graph) > 0 /\ number_of_nodes(graph) > 0) THEN EmptyMap
        ELSE IF ~enable_centrality \/ metrics = <<>> THEN EmptyMap
        ELSE compute_centrality_scores(graph, metrics, engine)

\* The centrality pass of _build_author_author_graph (lines 601-635).
author_centrality_scores(graph, seen_authors, centrality_metrics, cscores, enable_centrality, engine) ==
    LET custom_language_metric == "languagecentral" \in Range(centrality_metrics)
        metrics == SelectSeq(centrality_metrics, LAMBDA m : m # "languagecentral")
        computed == IF metrics # <<>> THEN compute_centrality_scores(graph, metrics, engine)
                    ELSE EmptyMap
        lc_scores == [author \in seen_authors |-> Get(cscores, author, Float(0))]
    IN  IF ~(number_of_edges(graph) > 0 /\ number_of_nodes(graph) > 0) THEN EmptyMap
        ELSE IF ~enable_centrality THEN EmptyMap
        ELSE IF metrics = <<>> /\ ~custom_language_metric THEN EmptyMap
        ELSE IF custom_language_metric THEN Put(computed, "languagecentral", lc_scores)
        ELSE computed

\* A variant that makes a node of every author of author_stats.
author_nodes_of_all_authors(seen_authors, astats, breakdown, cscores, cnorm, community_algorithms, assignments, scores, tiers) ==
    LET order == SortedStrs(DOMAIN astats)
    IN  [i \in DOMAIN order |->
            LET author == order[i]
                lang_breakdown == Get(breakdown, author, EmptyMap)
            IN  [id |-> author,
                 label |-> author,
                 type |-> "author",
                 totalWeight |-> astats[author].totalWeight,
                 languageCount |-> astats[author].languageCount,
                 centralizationScore |-> Get(cscores, author, Float(0)),
                 centralizationScoreNormalized |-> Get(cnorm, author, Float(0)),
                 communities |->
                     [alg \in Range(community_algorithms) |->
                         Get(Get(assignments, alg, EmptyMap), author, -1)],
                 languages |-> languages_by_weight(lang_breakdown, DOMAIN lang_breakdown),
                 centrality |-> node_values(scores, author),
                 centralityTier |-> node_values(tiers, author)]]

\* The nodes list (lines 642-684).
author_nodes(seen_authors, astats, breakdown, cscores, cnorm, community_algorithms, assignments, scores, tiers) ==
    LET order == SortedStrs(seen_authors)
    IN  [i \in DOMAIN order |->
            LET author == order[i]
                lang_breakdown == Get(breakdown, author, EmptyMap)
            IN  [id |-> author,
                 label |-> author,
                 type |-> "author",
                 totalWeight |-> astats[author].totalWeight,
                 languageCount |-> astats[author].languageCount,
                 centralizationScore |-> Get(cscores, author, Float(0)),
                 centralizationScoreNormalized |-> Get(cnorm, author, Float(0)),
                 communities |->
                     [alg \in Range(community_algorithms) |->
                         Get(Get(assignments, alg, EmptyMap), author, -1)],
                 languages |-> languages_by_weight(lang_breakdown, DOMAIN lang_breakdown),
                 centrality |-> node_values(scores, author),
                 centralityTier |-> node_values(tiers, author)]]

\* The field rec[name] = value, set when cond holds.
WithField(rec, name, cond, value) == IF cond THEN Put(rec, name, value) ELSE rec

\* _build_author_author_graph, given what its community and centrality passes
\* computed.
author_author_result(cnt, astats, breakdown, min_edge_weight, community_algorithms, cscores, cnorm, popularity, communities, scores, tiers) ==
    LET edge_list == author_edge_list(cnt, min_edge_weight)
        nodes == author_nodes(seen_endpoints(edge_list), astats, breakdown, cscores, cnorm,
                              community_algorithms, communities[2], scores, tiers)
        meta == [minEdgeWeight |-> min_edge_weight,
                 edgeCount |-> Len(edge_list),
                 nodeCount |-> Len(nodes),
                 communities |-> [alg \in DOMAIN communities[1] |-> Len(communities[1][alg])],
                 communityAlgorithms |-> community_algorithms,
                 centralityMetrics |-> SortedNames(DOMAIN scores)]
    IN  [meta |-> WithField(meta, "languagePopularity", popularity # EmptyMap,
                            [ratios |-> popularity,
                             languageCount |-> Cardinality(DOMAIN popularity)]),
         nodes |-> nodes,
         links |-> edge_list]

---------------------------------------------------------------------------
(* 4.5 Bipartite (author-language) Graph Builder *)

\* A variant that keeps any limit keys.
filter_top_any(stats, limit) ==
    IF limit = 0 \/ limit <= 0 \/ limit >= Cardinality(DOMAIN stats) THEN {DOMAIN stats}
    ELSE {keep \in SUBSET DOMAIN stats : Cardinality(keep) = limit}

\* _filter_top, as the sets of keys it may return: sort_values orders equal
\* totals as the sorting algorithm leaves them, so that any of the keys tied
\* at the limit may be among the first.
filter_top(stats, limit) ==
    IF limit = 0 \/ limit <= 0 \/ limit >= Cardinality(DOMAIN stats) THEN {DOMAIN stats}
    ELSE {keep \in SUBSET DOMAIN stats :
             /\ Cardinality(keep) = limit
             /\ \A k \in keep : \A o \in DOMAIN stats \ keep :
                    stats[k].totalWeight >= stats[o].totalWeight}

\* edges (lines 388, 394)
bipartite_edges(cnt, min_edge_weight, author_keep, language_keep) ==
    SelectSeq(cnt, LAMBDA row : /\ row.weight >= min_edge_weight
                                /\ row.author \in author_keep
                                /\ row.language \in language_keep)

\* The NetworkX graph of lines 397-402.
bipartite_graph_of(edges) ==
    add_weighted_edges_from(
        add_nodes_from(add_nodes_from(EmptyGraph, Column(edges, "author")),
                       Column(edges, "language")),
        [i \in DOMAIN edges |->
            [source |-> edges[i].author, target |-> edges[i].language,
             weight |-> edges[i].weight]])

\* The centrality pass of _build_bipartite_graph (lines 405-418).
bipartite_centrality_scores(graph, centrality_metrics, enable_centrality, engine) ==
    IF enable_centrality /\ centrality_metrics # <<>> /\ number_of_edges(graph) # 0
    THEN compute_centrality_scores(graph, centrality_metrics, engine)
    ELSE EmptyMap

Reverse(s) == [i \in DOMAIN s |-> s[Len(s) + 1 - i]]

\* The seeds of the string hashes of a process, as far as the model tells
\* them apart.
HashSeeds == {"ascending", "descending"}

\* The order in which Python iterates a set of strings: it follows the hashes
\* of the strings, which change with the seed of the process.
set_order(S, seed) == IF seed = "ascending" THEN SortedStrs(S) ELSE Reverse(SortedStrs(S))

\* The author nodes (lines 422-436), in the order the set is iterated.
bipartite_author_nodes(order, astats, cscores, cnorm) ==
    [i \in DOMAIN order |->
        [id |-> order[i],
         label |-> order[i],
         type |-> "author",
         totalWeight |-> astats[order[i]].totalWeight,
         languageCount |-> astats[order[i]].languageCount,
         centralizationScore |-> Get(cscores, order[i], Float(0)),
         centralizationScoreNormalized |-> Get(cnorm, order[i], Float(0))]]

\* The language nodes (lines 438-468), in the order the set is iterated.
bipartite_language_nodes(order, lstats, scores, tiers) ==
    [i \in DOMAIN order |->
        LET base == [id |-> order[i],
                     label |-> order[i],
                     type |-> "language",
                     totalWeight |-> lstats[order[i]].totalWeight,
                     authorCount |-> lstats[order[i]].authorCount]
            with_centrality == WithField(base, "centrality", scores # EmptyMap,
                                         node_values(scores, order[i]))
        IN  WithField(with_centrality, "centralityTier", scores # EmptyMap,
                      node_values(tiers, order[i]))]

\* _build_bipartite_graph, given the keys _filter_top kept, what its
\* centrality pass computed and the orders of its two sets.
bipartite_result(cnt, astats, lstats, options, keep, cscores, cnorm, scores, tiers, orders) ==
    LET edges == bipartite_edges(cnt, options.min_author_language_weight, keep[1], keep[2])
        nodes == bipartite_author_nodes(orders[1], astats, cscores, cnorm)
                     \o bipartite_language_nodes(orders[2], lstats, scores, tiers)
        links == [i \in DOMAIN edges |->
                     [source |-> edges[i].author,
                      target |-> edges[i].language,
                      weight |-> edges[i].weight]]
    IN  [meta |-> [minEdgeWeight |-> options.min_author_language_weight,
                   topAuthors |-> options.top_authors,
                   topLanguages |-> options.top_languages,
                   edgeCount |-> Len(links),
                   nodeCount |-> Len(nodes),
                   centralityMetrics |-> SortedNames(DOMAIN scores)],
         nodes |-> nodes,
         links |-> links]

---------------------------------------------------------------------------
(* 4.7 Language-Language Projection Builder *)

RECURSIVE shared_author_loop(_, _, _)
\* The loop at lines 732-736: edges[key].add(author), keys in insertion order.
shared_author_loop(cnt, authors, edges) ==
    IF authors = <<>> THEN edges
    ELSE LET author == Head(authors)
             languages == SortedStrs(Column(RowsWhere(cnt, "author", author), "language"))
             pairs == combinations2(languages)
             new == SelectSeq(pairs, LAMBDA key : key \notin DOMAIN edges.authors)
         IN  shared_author_loop(cnt, Tail(authors),
                 [keys |-> edges.keys \o new,
                  authors |-> [key \in DOMAIN edges.authors \cup Range(pairs) |->
                                  IF key \in Range(pairs)
                                  THEN Get(edges.authors, key, {}) \cup {author}
                                  ELSE edges.authors[key]]])

\* A variant that keeps an edge only above the minimum.
language_edge_kept_strict(weight, min_edge_weight) == weight > min_edge_weight

\* The filter at line 741.
language_edge_kept(weight, min_edge_weight) == weight >= min_edge_weight

\* edge_list (lines 731-742)
language_edge_list(cnt, min_edge_weight) ==
    LET edges == shared_author_loop(cnt, SortedStrs(Column(cnt, "author")),
                                    [keys |-> <<>>, authors |-> EmptyMap])
        kept == SelectSeq(edges.keys,
                    LAMBDA key : language_edge_kept(Cardinality(edges.authors[key]),
                                                    min_edge_weight))
    IN  [i \in DOMAIN kept |->
            [source |-> kept[i][1],
             target |-> kept[i][2],
             weight |-> Cardinality(edges.authors[kept[i]])]]

\* language_community_algorithms (lines 758-760)
language_community_algorithms_of(community_algorithms) ==
    SelectSeq(community_algorithms, LAMBDA alg : alg = "greedy")

\* The community pass of _build_language_language_graph (lines 756-785):
\* <<communities_summary, community_assignments>>.
language_communities(graph, community_algorithms, enable_communities, provider) ==
    LET requested == language_community_algorithms_of(community_algorithms)
        eligible == number_of_edges(graph) > 0 /\ number_of_nodes(graph) > 0
                        /\ enable_communities
    IN  IF eligible
        THEN IF "greedy" \in Range(requested)
             THEN <<[alg \in {"greedy"} |-> summary_of(provider.greedy)],
                    [alg \in {"greedy"} |-> assignments_of(provider.greedy, 0)]>>
             ELSE <<EmptyMap, EmptyMap>>
        ELSE <<[alg \in {"greedy"} |-> <<>>], [alg \in {"greedy"} |-> EmptyMap]>>

\* The centrality pass of _build_language_language_graph (lines 788-796).
language_centrality_scores(graph, centrality_metrics, enable_centrality, engine) ==
    IF enable_centrality /\ centrality_metrics # <<>>
          /\ number_of_edges(graph) > 0 /\ number_of_nodes(graph) > 0
    THEN compute_centrality_scores(graph, centrality_metrics, engine)
    ELSE EmptyMap

\* The nodes list (lines 806-837).
language_nodes(seen_languages, lstats, requested, assignments, scores, tiers) ==
    LET order == SortedStrs(seen_languages)
    IN  [i \in DOMAIN order |->
            LET lang == order[i]
                base == [id |-> lang,
                         label |-> lang,
                         type |-> "language",
                         totalWeight |-> lstats[lang].totalWeight,
                         authorCount |-> lstats[lang].authorCount]
                with_communities ==
                    WithField(base, "communities", requested # <<>>,
                        [alg \in {"greedy"} |->
                            Get(Get(assignments, "greedy", EmptyMap), lang, -1)])
                with_centrality ==
                    WithField(with_communities, "centrality", scores # EmptyMap,
                              node_values(scores, lang))
            IN  WithField(with_centrality, "centralityTier", scores # EmptyMap,
                          node_values(tiers, lang))]

\* _build_language_language_graph, given what its community and centrality
\* passes computed.
language_language_result(cnt, lstats, min_edge_weight, community_algorithms, communities, scores, tiers) ==
    LET edge_list == language_edge_list(cnt, min_edge_weight)
        requested == language_community_algorithms_of(community_algorithms)
        nodes == language_nodes(seen_endpoints(edge_list), lstats, requested,
                                communities[2], scores, tiers)
        meta == [minEdgeWeight |-> min_edge_weight,
                 edgeCount |-> Len(edge_list),
                 nodeCount |-> Len(nodes),
                 centralityMetrics |-> SortedNames(DOMAIN scores)]
        with_algorithms == WithField(meta, "communityAlgorithms", requested # <<>>, requested)
    IN  [meta |-> WithField(with_algorithms, "communities", requested # <<>>,
                            [alg \in DOMAIN communities[1] |-> Len(communities[1][alg])]),
         nodes |-> nodes,
         links |-> edge_list]

---------------------------------------------------------------------------
(* 4.8 Incremental Merge & Persistence *)

\* node.get("id") or node.get("label"): an empty id counts as none.
node_key(node) ==
    IF Get(node, "id", EmptyStr) # EmptyStr THEN node["id"] ELSE Get(node, "label", EmptyStr)

\* existing_nodes (lines 71-75): a later node replaces an earlier one of the
\* same key.
existing_nodes_of(existing) ==
    LET nodes == Get(existing, "nodes", <<>>)
        keys == {node_key(nodes[i]) : i \in DOMAIN nodes} \ {EmptyStr}
    IN  [key \in keys |->
            nodes[CHOOSE i \in DOMAIN nodes :
                     /\ node_key(nodes[i]) = key
                     /\ \A j \in DOMAIN nodes : node_key(nodes[j]) = key => j <= i]]

\* A variant in which the persisted entries replace the fresh ones.
merged_entries_old_first(fresh, old) ==
    [k \in DOMAIN fresh \cup DOMAIN old |-> IF k \in DOMAIN old THEN old[k] ELSE fresh[k]]

\* The entries of a node annotation after lines 102-104 or 107-108: an old
\* entry is taken only under a key the fresh annotation lacks.
merged_entries(fresh, old) ==
    [k \in DOMAIN fresh \cup DOMAIN old |-> IF k \in DOMAIN fresh THEN fresh[k] ELSE old[k]]

\* A variant that copies no tier.
merged_tiers_fresh_only(fresh_tiers, fresh_centrality, old_centrality, old_tiers) == fresh_tiers

\* centralityTier after lines 102-106: the old tier of each copied metric.
merged_tiers(fresh_tiers, fresh_centrality, old_centrality, old_tiers) ==
    LET copied == (DOMAIN old_centrality \ DOMAIN fresh_centrality) \cap DOMAIN old_tiers
    IN  [m \in DOMAIN fresh_tiers \cup copied |->
            IF m \in copied THEN old_tiers[m] ELSE fresh_tiers[m]]

\* A variant that copies nothing.
merge_node_untouched(node, existing_nodes) == node

\* The loop body at lines 88-108 for one node.
merge_node(node, existing_nodes) ==
    LET node_id == node_key(node)
        old_node == existing_nodes[node_id]
        old_centrality == Get(old_node, "centrality", EmptyMap)
        old_tiers == Get(old_node, "centralityTier", EmptyMap)
        old_communities == Get(old_node, "communities", EmptyMap)
        centrality == Get(node, "centrality", EmptyMap)
        tiers == Get(node, "centralityTier", EmptyMap)
        communities == Get(node, "communities", EmptyMap)
    IN  IF node_id = EmptyStr \/ node_id \notin DOMAIN existing_nodes THEN node
        ELSE IF old_centrality = EmptyMap /\ old_communities = EmptyMap THEN node
        ELSE Put(Put(Put(node,
                 "centrality", merged_entries(centrality, old_centrality)),
                 "centralityTier", merged_tiers(tiers, centrality, old_centrality, old_tiers)),
                 "communities", merged_entries(communities, old_communities))

RECURSIVE ordered_union(_, _)
\* The loop at lines 81-85 over one more list.
ordered_union(combined, algorithms) ==
    IF algorithms = <<>> THEN combined
    ELSE ordered_union(IF Head(algorithms) \in Range(combined) THEN combined
                       ELSE Append(combined, Head(algorithms)),
                       Tail(algorithms))

\* A variant that keeps the fresh metric names only.
combined_metrics_fresh_only(fresh_meta, old_meta) ==
    Range(Get(fresh_meta, "centralityMetrics", <<>>))

\* combined_metrics (lines 79-80)
combined_metrics_of(fresh_meta, old_meta) ==
    Range(Get(fresh_meta, "centralityMetrics", <<>>))
        \cup Range(Get(old_meta, "centralityMetrics", <<>>))

\* combined_algorithms (lines 81-85)
combined_algorithms_of(fresh_meta, old_meta) ==
    ordered_union(ordered_union(<<>>, Get(fresh_meta, "communityAlgorithms", <<>>)),
                  Get(old_meta, "communityAlgorithms", <<>>))

\* What a path may hold besides a document <<graph>>: no file, <<>>; text
\* that json.loads rejects, such as a file cut short; and JSON that is not a
\* graph object.
NoFile == <<>>
NotJson(text) == <<"text", text>>
OtherJson(text) == <<"json", text>>
Truncated == NotJson("")
JSON_LIST == "[]"
JSON_NODES_NUMBER == "{\"nodes\": 3}"
JSON_EMPTY_OBJECT == "{}"

\* The exception _merge_existing_graph_data ends with, "" when it returns.
\* json.loads' own error is caught at line 67; existing.get on a list
\* (line 73) and the iteration of a number (line 73) are outside the try;
\* an object without nodes returns at line 76.
merge_raises(file) ==
    IF file = NoFile \/ Len(file) = 1 THEN ""
    ELSE IF file[1] = "text" THEN ""
    ELSE IF file[2] = JSON_LIST THEN "AttributeError"
    ELSE IF file[2] = JSON_NODES_NUMBER THEN "TypeError"
    ELSE ""

\* A variant that merges the nodes and leaves the meta as built.
merge_existing_graph_data_nodes_only(graph, file) ==
    IF file = NoFile \/ Len(file) = 2 THEN graph
    ELSE LET existing_nodes == existing_nodes_of(file[1])
             nodes == Get(graph, "nodes", <<>>)
         IN  IF existing_nodes = EmptyMap THEN graph
             ELSE [graph EXCEPT
                     !.nodes = [i \in DOMAIN nodes |-> merge_node(nodes[i], existing_nodes)]]

\* A variant that takes the nodes and the links of the snapshot.
merge_existing_graph_data_reusing(graph, file) ==
    IF file = NoFile \/ Len(file) = 2 THEN graph
    ELSE [graph EXCEPT !.nodes = file[1].nodes, !.links = file[1].links]

\* _merge_existing_graph_data: the graph after the merge with the file at
\* existing_path, where it returns.
merge_existing_graph_data(graph, file) ==
    IF file = NoFile \/ Len(file) = 2 THEN graph
    ELSE LET existing == file[1]
             existing_nodes == existing_nodes_of(existing)
             fresh_meta == Get(graph, "meta", EmptyMap)
             old_meta == Get(existing, "meta", EmptyMap)
             combined_metrics == combined_metrics_of(fresh_meta, old_meta)
             combined_algorithms == combined_algorithms_of(fresh_meta, old_meta)
             nodes == Get(graph, "nodes", <<>>)
         IN  IF existing_nodes = EmptyMap THEN graph
             ELSE [graph EXCEPT
                     !.nodes = [i \in DOMAIN nodes |-> merge_node(nodes[i], existing_nodes)],
                     !.meta = WithField(
                                 Put(fresh_meta, "centralityMetrics", SortedNames(combined_metrics)),
                                 "communityAlgorithms", combined_algorithms # <<>>,
                                 combined_algorithms)]

\* json.loads(json.dumps(graph)): the documents hold strings, numbers, lists
\* and string-keyed objects only, which the round trip returns as they were.
json_document(graph) == <<graph>>

---------------------------------------------------------------------------
(* The loader's run: read_csv, _load_records, _author_language_counts *)

RawAuthors == {NaN, StrA, <<32, 65, 32>>, <<32>>}
RawLanguages == {NaN, StrE, <<9, 101>>, StrF}
RawRows == [author : RawAuthors, language : RawLanguages]

RECURSIVE SeqsUpTo(_, _)
SeqsUpTo(S, n) ==
    IF n = 0 THEN {<<>>}
    ELSE LET shorter == SeqsUpTo(S, n - 1)
         IN  shorter \cup {Append(s, x) : s \in {t \in shorter : Len(t) = n - 1}, x \in S}

InitLoad ==
    /\ pc = "read"
    /\ columns = REQUIRED_COLUMNS
    /\ table \in SeqsUpTo(RawRows, MaxRows)
    /\ records = <<>>
    /\ counts = <<>>
    /\ NothingAggregated
    /\ NothingScored
    /\ NothingBuilt
    /\ NoRun

\* Line 952. A missing column ends the run with the KeyError of dropna.
LoadRecords ==
    /\ pc = "read"
    /\ IF load_error(columns) = ""
       THEN /\ records' = load_records(table)
            /\ pc' = "loaded"
       ELSE /\ records' = records
            /\ pc' = load_error(columns)
    /\ UNCHANGED <<invocations, columns, table, counts, varsAgg, varsScore, varsTier, varsGraph, varsRun>>

AuthorLanguageCounts ==
    /\ pc = "loaded"
    /\ counts' = author_language_counts(records)
    /\ pc' = "counted"
    /\ UNCHANGED <<invocations, columns, table, records, varsAgg, varsScore, varsTier, varsGraph, varsRun>>

NextLoad == LoadRecords \/ AuthorLanguageCounts

SpecLoad == InitLoad /\ [][NextLoad]_vars

---------------------------------------------------------------------------
(* C1 *)

\* What the claim calls cleaning, stated without the code's operators: the
\* rows with both fields present, each field cut down to the span between its
\* first and its last non-whitespace character.
Trimmed(s) ==
    LET solid == {i \in DOMAIN s : s[i] \notin Whitespace}
    IN  IF solid = {} THEN <<>>
        ELSE SubSeq(s, CHOOSE i \in solid : \A j \in solid : i <= j,
                       CHOOSE i \in solid : \A j \in solid : j <= i)

CleanedRows == {i \in DOMAIN table : table[i].author # NaN /\ table[i].language # NaN}

CleanedPair(i) == <<Trimmed(table[i].author), Trimmed(table[i].language)>>

RowsOfPair(p) == {i \in CleanedRows : CleanedPair(i) = p}

\* C1: once the counts are computed, every cleaned (author, language) pair has
\* exactly one CountEdge, every CountEdge is such a pair, and its weight is
\* the number of cleaned raw rows with that pair.
C1_CountEdgeWeights ==
    pc = "counted" =>
        /\ \A i \in CleanedRows :
              Cardinality({k \in DOMAIN counts :
                  <<counts[k].author, counts[k].language>> = CleanedPair(i)}) = 1
        /\ \A k \in DOMAIN counts :
              /\ counts[k].weight = Cardinality(RowsOfPair(<<counts[k].author, counts[k].language>>))
              /\ counts[k].weight >= 1

\* A table with a dropped row and two differently spelled rows of one pair.
C1_Witness ==
    /\ pc = "counted"
    /\ \E i \in DOMAIN table : i \notin CleanedRows
    /\ \E k \in DOMAIN counts :
          /\ counts[k].weight >= 2
          /\ \E i, j \in RowsOfPair(<<counts[k].author, counts[k].language>>) :
                table[i].author # table[j].author

---------------------------------------------------------------------------
(* The scorer's run: main() from the counts to the centralization scores *)

ComputeStats ==
    /\ pc = "counted"
    /\ author_stats' = author_stats_of(counts)
    /\ language_stats' = language_stats_of(counts)
    /\ author_language_breakdown' = author_language_breakdown_of(counts)
    /\ pc' = "aggregated"
    /\ UNCHANGED <<invocations, columns, table, records, counts, varsScore, varsTier, varsGraph, varsRun>>

ComputePopularity ==
    /\ pc = "aggregated"
    /\ language_popularity' = language_popularity_ratios(language_stats)
    /\ pc' = "popularity"
    /\ UNCHANGED <<invocations, columns, table, records, counts, varsAgg, varsTier, varsGraph, varsRun,
                   centralization_scores, centralization_scores_normalized>>

ComputeCentralization ==
    /\ pc = "popularity"
    /\ LET scores == compute_author_centralization(author_language_breakdown,
                                                   language_popularity)
       IN  /\ centralization_scores' = scores[1]
           /\ centralization_scores_normalized' = scores[2]
    /\ pc' = "scored"
    /\ UNCHANGED <<invocations, columns, table, records, counts, varsAgg, varsTier, language_popularity, varsGraph, varsRun>>

NextScorer == ComputeStats \/ ComputePopularity \/ ComputeCentralization

\* The CountEdge tables the scorer is applied to: any weight from 0 on each
\* (author, language) key that has a row.
ScorerKeys == {<<StrA, StrE>>, <<StrA, StrF>>, <<StrB, StrE>>, <<StrB, StrF>>, <<StrC, StrE>>}

CountsOf(w) ==
    LET keys == SortedPairs(DOMAIN w)
    IN  [i \in DOMAIN keys |->
            [author |-> keys[i][1], language |-> keys[i][2], weight |-> w[keys[i]]]]

InitScorer ==
    /\ pc = "counted"
    /\ columns = REQUIRED_COLUMNS
    /\ table = <<>>
    /\ records = <<>>
    /\ \E present \in SUBSET ScorerKeys :
          \E w \in [present -> 0 .. MaxWeight] : counts = CountsOf(w)
    /\ NothingAggregated
    /\ NothingScored
    /\ NothingBuilt
    /\ NoRun

SpecScorer == InitScorer /\ [][NextScorer]_vars

---------------------------------------------------------------------------
(* C5, C6 *)

RECURSIVE SumFn(_, _)
\* The sum of f over the set S
SumFn(f, S) ==
    IF S = {} THEN 0
    ELSE LET x == CHOOSE y \in S : TRUE
         IN  f[x] + SumFn(f, S \ {x})

RECURSIVE RatSumFn(_, _)
RatSumFn(f, S) ==
    IF S = {} THEN Float(0)
    ELSE LET x == CHOOSE y \in S : TRUE
         IN  RatAdd(f[x], RatSumFn(f, S \ {x}))

\* The volumes, read off the CountEdge rows themselves.
RowWeights(S) == SumFn([i \in DOMAIN counts |-> counts[i].weight], S)
TotalVolume == RowWeights(DOMAIN counts)
LanguageVolume(l) == RowWeights({i \in DOMAIN counts : counts[i].language = l})
AuthorVolume(a) == RowWeights({i \in DOMAIN counts : counts[i].author = a})
PairVolume(a, l) ==
    RowWeights({i \in DOMAIN counts : counts[i].author = a /\ counts[i].language = l})
CountAuthors == {counts[i].author : i \in DOMAIN counts}
CountLanguages == {counts[i].language : i \in DOMAIN counts}

\* C5: every language's ratio is its volume over the grand total and the
\* ratios sum to 1 when the total volume is positive; every ratio is 0 when
\* the total volume is 0.
C5_PopularityRatios ==
    pc \in {"popularity", "scored"} =>
        /\ DOMAIN language_popularity = CountLanguages
        /\ TotalVolume > 0 =>
              /\ \A l \in CountLanguages :
                    language_popularity[l][1] * TotalVolume
                        = LanguageVolume(l) * language_popularity[l][2]
              /\ RatSumFn(language_popularity, CountLanguages) = Float(1)
        /\ TotalVolume = 0 =>
              \A l \in CountLanguages : language_popularity[l] = Float(0)

\* Two languages of different positive volume have been given their ratios.
C5_Witness ==
    /\ pc = "popularity"
    /\ \E l, m \in CountLanguages :
          /\ 0 < LanguageVolume(l)
          /\ LanguageVolume(l) < LanguageVolume(m)
          /\ RatLess(language_popularity[l], language_popularity[m])

\* Languages are present and the total volume is 0.
C5_WitnessZero ==
    /\ pc = "popularity"
    /\ CountLanguages # {}
    /\ TotalVolume = 0
    /\ \A l \in CountLanguages : language_popularity[l] = Float(0)

\* C6: the weighted score of an author is the sum over the author's languages
\* of ratio x 100 x weight (the ratio being volume over total), and the
\* normalized score is that sum over the author's totalWeight, or 0 when the
\* totalWeight is 0.
C6_Centralization ==
    pc = "scored" =>
        /\ DOMAIN centralization_scores = CountAuthors
        /\ DOMAIN centralization_scores_normalized = CountAuthors
        /\ \A a \in CountAuthors :
              LET weighted == centralization_scores[a]
                  normalized == centralization_scores_normalized[a]
                  mix == SumFn([l \in CountLanguages |-> LanguageVolume(l) * PairVolume(a, l)],
                               CountLanguages)
              IN  /\ weighted = RatSumFn([l \in CountLanguages |->
                                    RatMul(RatMul(language_popularity[l], Float(100)),
                                           Float(PairVolume(a, l)))], CountLanguages)
                  /\ TotalVolume > 0 => weighted[1] * TotalVolume = weighted[2] * 100 * mix
                  /\ author_stats[a].totalWeight > 0 =>
                        RatMul(normalized, Float(author_stats[a].totalWeight)) = weighted
                  /\ author_stats[a].totalWeight = 0 => normalized = Float(0)

\* An author with two languages of different popularity has a score, and
\* the normalized score differs from the weighted one.
C6_Witness ==
    /\ pc = "scored"
    /\ \E a \in CountAuthors :
          /\ author_stats[a].totalWeight > 1
          /\ author_stats[a].languageCount > 1
          /\ centralization_scores[a] # centralization_scores_normalized[a]
          /\ RatLess(Float(0), centralization_scores_normalized[a])
          /\ \E l, m \in DOMAIN author_language_breakdown[a] :
                language_popularity[l] # language_popularity[m]

---------------------------------------------------------------------------
(* The pipeline run: main() from the builders to the written files *)

RECURSIVE Partitions(_)
\* The partitions a community backend may return for a node set, each a
\* list of disjoint communities.
Partitions(nodes) ==
    IF nodes = {} THEN {<<>>}
    ELSE LET first == CHOOSE x \in nodes : \A y \in nodes : StrLE(x, y)
         IN  UNION {{<<block>> \o rest : rest \in Partitions(nodes \ block)} :
                        block \in {b \in SUBSET nodes : first \in b}}

\* What the community backends return for a graph: a partition for each
\* algorithm that runs, <<>> for leiden or infomap when the backend is missing,
\* and <<>> for every algorithm that is not asked.
CommunityProviders(graph, algorithms, asked) ==
    {provider \in [{"louvain", "leiden", "infomap", "greedy"} -> Partitions(graph.nodes) \cup {<<>>}] :
        \A alg \in DOMAIN provider :
            /\ (~asked \/ alg \notin Range(algorithms)) => provider[alg] = <<>>
            /\ (asked /\ alg \in Range(algorithms) /\ alg \in {"louvain", "greedy"})
                  => provider[alg] # <<>>}

\* The scores networkx may return for the metrics it searches or iterates for.
EngineScores == {Float(0), Float(1)}

\* What networkx may return for one metric: a score for every node, or for
\* eigenvector no convergence; NoConvergence too for a metric that is not run.
EngineChoices(graph, metrics, asked, metric) ==
    IF ~asked \/ metric \notin Range(metrics) THEN {NoConvergence}
    ELSE {<<scores>> : scores \in [graph.nodes -> EngineScores]}
             \cup IF metric = "eigenvector" THEN {NoConvergence} ELSE {}

EngineResults(graph, metrics, asked) ==
    [betweenness : EngineChoices(graph, metrics, asked, "betweenness"),
     closeness : EngineChoices(graph, metrics, asked, "closeness"),
     eigenvector : EngineChoices(graph, metrics, asked, "eigenvector")]

\* Lines 967-990.
ParseArguments ==
    /\ pc = "scored"
    /\ args' = parsed(argv)
    /\ pc' = "parsed"
    /\ UNCHANGED <<invocations, columns, table, records, counts, varsAgg, varsScore, varsTier, varsGraph,
                   argv, files, run>>

\* Lines 992-1004.
BuildBipartite ==
    /\ pc = "parsed"
    /\ LET enable_centrality == "author-language" \in args.centrality_targets
           metrics_without_custom ==
               SelectSeq(args.centrality_metrics, LAMBDA m : m # "languagecentral")
       IN  \E author_keep \in filter_top(author_stats, args.top_authors) :
           \E language_keep \in filter_top(language_stats, args.top_languages) :
               LET edges == bipartite_edges(counts, args.min_author_language_weight,
                                            author_keep, language_keep)
                   graph == bipartite_graph_of(edges)
                   asked == enable_centrality /\ number_of_edges(graph) # 0
               IN  \E engine \in EngineResults(graph, metrics_without_custom, asked) :
                   \E seed \in HashSeeds :
                       LET scores == bipartite_centrality_scores(graph,
                                         metrics_without_custom, enable_centrality, engine)
                       IN  bipartite' = bipartite_result(counts, author_stats,
                               language_stats, args, <<author_keep, language_keep>>,
                               centralization_scores, centralization_scores_normalized,
                               scores, assign_centrality_tiers(scores),
                               <<set_order(Column(edges, "author"), seed),
                                 set_order(Column(edges, "language"), seed)>>)
    /\ pc' = "author-language built"
    /\ UNCHANGED <<invocations, columns, table, records, counts, varsAgg, varsScore, varsTier,
                   community_assignments, author_graph, language_graph, varsRun>>

\* Lines 1006-1019.
BuildAuthorAuthor ==
    /\ pc = "author-language built"
    /\ LET edge_list == author_edge_list(counts, args.min_author_author_weight)
           graph == graph_of(edge_list)
           enable_communities == "author-author" \in args.community_targets
           enable_centrality == "author-author" \in args.centrality_targets
           nonempty == number_of_edges(graph) > 0 /\ number_of_nodes(graph) > 0
       IN  \E provider \in CommunityProviders(graph, args.community_algorithms,
                                              nonempty /\ enable_communities) :
           \E engine \in EngineResults(graph, args.centrality_metrics,
                                       nonempty /\ enable_centrality) :
               LET communities == author_communities(graph, args.community_algorithms,
                                                     enable_communities, provider)
                   scores == author_centrality_scores(graph, seen_endpoints(edge_list),
                                 args.centrality_metrics, centralization_scores,
                                 enable_centrality, engine)
                   tiers == assign_centrality_tiers(scores)
               IN  /\ community_assignments' = communities[2]
                   /\ UNCHANGED <<engine_graph, engine_metrics>>
                   /\ centrality_scores' = scores
                   /\ centrality_tiers' = tiers
                   /\ author_graph' = author_author_result(counts, author_stats,
                          author_language_breakdown, args.min_author_author_weight,
                          args.community_algorithms, centralization_scores,
                          centralization_scores_normalized, language_popularity,
                          communities, scores, tiers)
    /\ pc' = "author-author built"
    /\ UNCHANGED <<invocations, columns, table, records, counts, varsAgg, varsScore, bipartite, language_graph, varsRun>>

\* Lines 1020-1029.
BuildLanguageLanguage ==
    /\ pc = "author-author built"
    /\ LET edge_list == language_edge_list(counts, args.min_language_language_weight)
           graph == graph_of(edge_list)
           enable_communities == "language-language" \in args.community_targets
           enable_centrality == "language-language" \in args.centrality_targets
           metrics_without_custom ==
               SelectSeq(args.centrality_metrics, LAMBDA m : m # "languagecentral")
           nonempty == number_of_edges(graph) > 0 /\ number_of_nodes(graph) > 0
       IN  \E provider \in CommunityProviders(graph, args.language_community_algorithms,
                                              nonempty /\ enable_communities) :
           \E engine \in EngineResults(graph, metrics_without_custom,
                                       nonempty /\ enable_centrality) :
               LET communities == language_communities(graph,
                                      args.language_community_algorithms,
                                      enable_communities, provider)
                   scores == language_centrality_scores(graph, metrics_without_custom,
                                                        enable_centrality, engine)
                   tiers == assign_centrality_tiers(scores)
               IN  language_graph' = language_language_result(counts, language_stats,
                       args.min_language_language_weight,
                       args.language_community_algorithms, communities, scores, tiers)
    /\ pc' = "built"
    /\ UNCHANGED <<invocations, columns, table, records, counts, varsAgg, varsScore, varsTier,
                   community_assignments, bipartite, author_graph, varsRun>>

\* Lines 1037-1039: the three merges in turn. An exception in one of them
\* ends the run there, with the graphs merged before it merged.
MergeExisting ==
    /\ pc = "built"
    /\ LET first == merge_raises(files[AUTHOR_LANGUAGE_PATH])
           second == merge_raises(files[AUTHOR_AUTHOR_PATH])
           third == merge_raises(files[LANGUAGE_LANGUAGE_PATH])
       IN  /\ bipartite' =
                  IF first = ""
                  THEN merge_existing_graph_data(bipartite, files[AUTHOR_LANGUAGE_PATH])
                  ELSE bipartite
           /\ author_graph' =
                  IF first = "" /\ second = ""
                  THEN merge_existing_graph_data(author_graph, files[AUTHOR_AUTHOR_PATH])
                  ELSE author_graph
           /\ language_graph' =
                  IF first = "" /\ second = "" /\ third = ""
                  THEN merge_existing_graph_data(language_graph, files[LANGUAGE_LANGUAGE_PATH])
                  ELSE language_graph
           /\ pc' = IF first # "" THEN first
                    ELSE IF second # "" THEN second
                    ELSE IF third # "" THEN third
                    ELSE "merged"
    /\ UNCHANGED <<invocations, columns, table, records, counts, varsAgg, varsScore, varsTier,
                   community_assignments, varsRun>>

\* Path.write_text at position before: the file is opened for writing, which
\* empties it.
Open(path, before, after) ==
    /\ pc = before
    /\ files' = [files EXCEPT ![path] = Truncated]
    /\ pc' = after
    /\ UNCHANGED <<invocations, columns, table, records, counts, varsAgg, varsScore, varsTier, varsGraph,
                   argv, args, run>>

\* Path.write_text goes on: the text json.dumps made is written and the file
\* closed.
Write(path, graph, before, after) ==
    /\ pc = before
    /\ files' = [files EXCEPT ![path] = json_document(graph)]
    /\ pc' = after
    /\ UNCHANGED <<invocations, columns, table, records, counts, varsAgg, varsScore, varsTier, varsGraph,
                   argv, args, run>>

\* Line 1041.
OpenAuthorLanguage == Open(AUTHOR_LANGUAGE_PATH, "merged", "author-language open")
WriteAuthorLanguage ==
    Write(AUTHOR_LANGUAGE_PATH, bipartite, "author-language open", "author-language written")

\* Line 1042.
OpenAuthorAuthor == Open(AUTHOR_AUTHOR_PATH, "author-language written", "author-author open")
WriteAuthorAuthor ==
    Write(AUTHOR_AUTHOR_PATH, author_graph, "author-author open", "author-author written")

\* Line 1043.
OpenLanguageLanguage ==
    Open(LANGUAGE_LANGUAGE_PATH, "author-author written", "language-language open")
WriteLanguageLanguage ==
    Write(LANGUAGE_LANGUAGE_PATH, language_graph, "language-language open", "done")

NextRun ==
    \/ LoadRecords
    \/ AuthorLanguageCounts
    \/ ComputeStats
    \/ ComputePopularity
    \/ ComputeCentralization
    \/ ParseArguments
    \/ BuildBipartite
    \/ BuildAuthorAuthor
    \/ BuildLanguageLanguage
    \/ MergeExisting
    \/ OpenAuthorLanguage
    \/ WriteAuthorLanguage
    \/ OpenAuthorAuthor
    \/ WriteAuthorAuthor
    \/ OpenLanguageLanguage
    \/ WriteLanguageLanguage

RECURSIVE repeated(_, _)
repeated(row, n) == IF n = 0 THEN <<>> ELSE <<row>> \o repeated(row, n - 1)

RECURSIVE expanded(_, _)
\* The clean table that has w[key] rows for each (author, language) key.
expanded(w, keys) ==
    IF keys = <<>> THEN <<>>
    ELSE repeated([author |-> Head(keys)[1], language |-> Head(keys)[2]], w[Head(keys)])
             \o expanded(w, Tail(keys))

TableOf(w) == expanded(w, SortedPairs(DOMAIN w))

---------------------------------------------------------------------------
(* One run over each table of a family, from an empty output directory *)

GraphKeys == {<<StrA, StrE>>, <<StrA, StrF>>, <<StrA, StrG>>,
              <<StrB, StrE>>, <<StrB, StrF>>, <<StrC, StrE>>}

\* The pairs whose number of rows goes up to the bound; the other pairs have
\* one row at most.
HeavyKeys == {<<StrA, StrE>>, <<StrA, StrF>>, <<StrB, StrE>>, <<StrB, StrF>>}

GraphWeights ==
    {w \in [GraphKeys -> 0 .. MaxWeight] : \A key \in GraphKeys \ HeavyKeys : w[key] <= 1}

MinEdgeWeights == {0, 1, 2, 3}

TopLimits == {0, 1, 2}

GraphArgv ==
    {[DefaultArgv EXCEPT !.min_author_author_weight = aa] : aa \in MinEdgeWeights}
        \cup {[DefaultArgv EXCEPT !.min_language_language_weight = ll] : ll \in MinEdgeWeights}
        \cup {[DefaultArgv EXCEPT !.min_author_language_weight = al] : al \in MinEdgeWeights}
        \cup {[DefaultArgv EXCEPT !.top_authors = limit] : limit \in TopLimits}
        \cup {[DefaultArgv EXCEPT !.top_languages = limit] : limit \in TopLimits}
        \cup {[DefaultArgv EXCEPT !.min_author_language_weight = 2, !.top_authors = 1],
              [DefaultArgv EXCEPT !.top_authors = 2, !.top_languages = 1],
              [DefaultArgv EXCEPT !.centrality_metrics = Flag(<<"degree">>),
                                  !.centrality_targets = Flag(<<"author-language">>)]}

InitGraph ==
    /\ pc = "read"
    /\ columns = REQUIRED_COLUMNS
    /\ table \in {TableOf(w) : w \in GraphWeights}
    /\ records = <<>>
    /\ counts = <<>>
    /\ NothingAggregated
    /\ NothingScored
    /\ NothingBuilt
    /\ argv \in GraphArgv
    /\ args = DefaultArgs
    /\ files = [path \in OutputPaths |-> <<>>]
    /\ run = 1

SpecGraph == InitGraph /\ [][NextRun]_vars

---------------------------------------------------------------------------
(* _assign_centrality_tiers applied to a CentralityScoreSet *)

TierNodes == {StrA, StrB, StrC, StrD}
Scores == {Float(k) : k \in 0 .. MaxScore}
ScoreMaps(nodes) == UNION {[some -> Scores] : some \in SUBSET nodes}

InitTiers ==
    /\ pc = "scores"
    /\ columns = REQUIRED_COLUMNS
    /\ table = <<>>
    /\ records = <<>>
    /\ counts = <<>>
    /\ NothingAggregated
    /\ \E metrics \in SUBSET {"degree", "closeness"} :
          \E scores \in [metrics -> ScoreMaps(TierNodes)] :
              /\ "closeness" \in metrics => DOMAIN scores["closeness"] \subseteq {StrA, StrB}
              /\ centrality_scores = scores
    /\ NoCall
    /\ centrality_tiers = EmptyMap
    /\ NothingBuilt
    /\ NoRun

AssignCentralityTiers ==
    /\ pc = "scores"
    /\ centrality_tiers' = assign_centrality_tiers(centrality_scores)
    /\ pc' = "tiers"
    /\ UNCHANGED <<invocations, columns, table, records, counts, varsAgg, varsScore, engine_graph,
                   engine_metrics, centrality_scores, varsGraph, varsRun>>

NextTiers == AssignCentralityTiers

SpecTiers == InitTiers /\ [][NextTiers]_vars

---------------------------------------------------------------------------
(* The engine on its own: a call of _compute_centrality_scores *)

MaxMetrics == 2

EngineNodes == {StrA, StrB, StrC}

EngineEdges == {{StrA, StrB}, {StrB, StrC}, {StrA}}

\* The graphs over these nodes, with and without edges; every edge has
\* weight 1.
EngineGraphs ==
    UNION {{[nodes |-> nodes, weight |-> [e \in edges |-> 1]] :
               edges \in SUBSET {e \in EngineEdges : e \subseteq nodes}} :
           nodes \in SUBSET EngineNodes}

\* The names a caller may pass: those the engine computes, the custom metric
\* of the author-author graph, and a name that is no metric.
RequestedNames == {"degree", "closeness", "betweenness", "eigenvector", "languagecentral", "bogus"}

InitEngine ==
    /\ pc = "call"
    /\ columns = REQUIRED_COLUMNS
    /\ table = <<>>
    /\ records = <<>>
    /\ counts = <<>>
    /\ NothingAggregated
    /\ engine_graph \in EngineGraphs
    /\ engine_metrics \in SeqsUpTo(RequestedNames, MaxMetrics)
    /\ centrality_scores = EmptyMap
    /\ centrality_tiers = EmptyMap
    /\ NothingBuilt
    /\ NoRun

\* _compute_centrality_scores(engine_graph, engine_metrics); networkx is
\* called only past line 310.
ComputeCentralityScores ==
    /\ pc = "call"
    /\ \E engine \in EngineResults(engine_graph, requested_metrics(engine_metrics),
                                   computable(engine_graph)) :
          centrality_scores' = compute_centrality_scores(engine_graph, engine_metrics, engine)
    /\ pc' = "returned"
    /\ UNCHANGED <<invocations, columns, table, records, counts, varsAgg, varsScore, engine_graph,
                   engine_metrics, centrality_tiers, varsGraph, varsRun>>

NextEngine == ComputeCentralityScores

SpecEngine == InitEngine /\ [][NextEngine]_vars

---------------------------------------------------------------------------
(* C7 *)

TierRank(label) == CASE label = "outer" -> 0 [] label = "periphery" -> 1 [] label = "central" -> 2

\* C7: every scored node of a metric with scores has exactly one of the three
\* labels, a node with a higher label never has a lower score, and a metric
\* without scores has no tier mapping.
C7_TiersMonotone ==
    pc = "tiers" =>
        /\ DOMAIN centrality_tiers =
              {m \in DOMAIN centrality_scores : DOMAIN centrality_scores[m] # {}}
        /\ \A m \in DOMAIN centrality_tiers :
              /\ DOMAIN centrality_tiers[m] = DOMAIN centrality_scores[m]
              /\ \A x \in DOMAIN centrality_tiers[m] :
                    centrality_tiers[m][x] \in {"outer", "periphery", "central"}
              /\ \A x, y \in DOMAIN centrality_tiers[m] :
                    TierRank(centrality_tiers[m][x]) > TierRank(centrality_tiers[m][y])
                        => RatLE(centrality_scores[m][y], centrality_scores[m][x])

\* One metric shows all three labels and another, without scores, is skipped.
C7_Witness ==
    /\ pc = "tiers"
    /\ \E m \in DOMAIN centrality_scores : m \notin DOMAIN centrality_tiers
    /\ \E m \in DOMAIN centrality_tiers :
          {centrality_tiers[m][x] : x \in DOMAIN centrality_tiers[m]}
              = {"outer", "periphery", "central"}

---------------------------------------------------------------------------
(* C2, C3, C4 *)

\* What the cleaned table itself says: who translated into what, how often.
Translated(a, l) == \E i \in DOMAIN records : records[i].author = a /\ records[i].language = l
Volume(a, l) ==
    Cardinality({i \in DOMAIN records : records[i].author = a /\ records[i].language = l})
RecordAuthors == {records[i].author : i \in DOMAIN records}
RecordLanguages == {records[i].language : i \in DOMAIN records}
SharedLanguages(a, b) == {l \in RecordLanguages : Translated(a, l) /\ Translated(b, l)}
SharedAuthors(x, y) == {a \in RecordAuthors : Translated(a, x) /\ Translated(a, y)}

LinksBetween(links, a, b) == {i \in DOMAIN links : {links[i].source, links[i].target} = {a, b}}

AuthorGraphFresh == pc \in {"author-author built", "built"}
LanguageGraphFresh == pc = "built"

\* C2: every author-author link joins two different authors and carries the
\* number of languages both translated into as weight and as
\* sharedLanguageCount; an unordered pair of authors has a link, and only
\* one, exactly when that number is at least 1 and at least the minimum.
C2_AuthorEdgeWeights ==
    AuthorGraphFresh =>
        LET links == author_graph.links
            minimum == args.min_author_author_weight
        IN  /\ \A i \in DOMAIN links :
                  /\ links[i].source \in RecordAuthors
                  /\ links[i].target \in RecordAuthors
                  /\ links[i].source # links[i].target
                  /\ links[i].weight
                        = Cardinality(SharedLanguages(links[i].source, links[i].target))
                  /\ links[i].sharedLanguageCount = links[i].weight
            /\ \A a, b \in RecordAuthors :
                  a # b =>
                      LET shared == Cardinality(SharedLanguages(a, b))
                      IN  Cardinality(LinksBetween(links, a, b))
                              = IF shared >= 1 /\ shared >= minimum THEN 1 ELSE 0

\* One pair is linked with weight 2 while a pair sharing one language is
\* dropped by the minimum.
C2_Witness ==
    /\ AuthorGraphFresh
    /\ \E i \in DOMAIN author_graph.links : author_graph.links[i].weight = 2
    /\ \E a, b \in RecordAuthors :
          /\ a # b
          /\ Cardinality(SharedLanguages(a, b)) = 1
          /\ LinksBetween(author_graph.links, a, b) = {}

\* C3: sharedTranslationCount is the sum over the shared languages of the
\* smaller of the two volumes, and never exceeds the smaller totalWeight.
C3_SharedTranslationCount ==
    AuthorGraphFresh =>
        \A i \in DOMAIN author_graph.links :
            LET a == author_graph.links[i].source
                b == author_graph.links[i].target
                shared == SharedLanguages(a, b)
            IN  /\ author_graph.links[i].sharedTranslationCount
                      = SumFn([l \in shared |-> Min(Volume(a, l), Volume(b, l))], shared)
                /\ author_graph.links[i].sharedTranslationCount
                      <= Min(author_stats[a].totalWeight, author_stats[b].totalWeight)

\* Two authors share two languages with unequal volumes, so that the overlap
\* is below both totals.
C3_Witness ==
    /\ AuthorGraphFresh
    /\ \E i \in DOMAIN author_graph.links :
          LET link == author_graph.links[i]
          IN  /\ link.weight = 2
              /\ link.sharedTranslationCount >= 2
              /\ link.sharedTranslationCount < author_stats[link.source].totalWeight
              /\ link.sharedTranslationCount < author_stats[link.target].totalWeight

\* C4: every language-language link carries the number of authors who
\* translated into both languages; an unordered pair of languages has a link,
\* and only one, exactly when that number is at least 1 and at least the
\* minimum.
C4_LanguageEdgeWeights ==
    LanguageGraphFresh =>
        LET links == language_graph.links
            minimum == args.min_language_language_weight
        IN  /\ \A i \in DOMAIN links :
                  /\ links[i].source \in RecordLanguages
                  /\ links[i].target \in RecordLanguages
                  /\ links[i].source # links[i].target
                  /\ links[i].weight
                        = Cardinality(SharedAuthors(links[i].source, links[i].target))
            /\ \A x, y \in RecordLanguages :
                  x # y =>
                      LET shared == Cardinality(SharedAuthors(x, y))
                      IN  Cardinality(LinksBetween(links, x, y))
                              = IF shared >= 1 /\ shared >= minimum THEN 1 ELSE 0

\* One pair of languages is linked with weight 2 while a pair with one common
\* author is dropped by the minimum.
C4_Witness ==
    /\ LanguageGraphFresh
    /\ \E i \in DOMAIN language_graph.links :
          /\ language_graph.links[i].weight = 2
          /\ Volume(StrA, language_graph.links[i].source) = 2
    /\ \E x, y \in RecordLanguages :
          /\ x # y
          /\ Cardinality(SharedAuthors(x, y)) = 1
          /\ LinksBetween(language_graph.links, x, y) = {}

---------------------------------------------------------------------------
(* Successive runs over one table, each reading what the previous one wrote *)

MaxRuns == 3

\* A-B share e and g, B-C share f: the author-author graph is the path
\* A-B-C at minimum 1, the edge A-B at minimum 2, and empty at minimum 3.
RunKeys == {<<StrA, StrE>>, <<StrA, StrG>>, <<StrB, StrE>>, <<StrB, StrF>>,
            <<StrB, StrG>>, <<StrC, StrF>>}

RunTable == TableOf([key \in RunKeys |-> 1])

\* The same table with one more author, who bears the name of the language e
\* and has one translation, into a language of their own.
NamesakeTable == TableOf([key \in RunKeys \cup {<<StrE, StrD>>} |-> 1])

RunTables == {RunTable, NamesakeTable}

\* The command lines of the runs, parsed (lines 972-993).
RunArgv ==
    {[DefaultArgv EXCEPT !.community_algorithms = Flag(<<"louvain">>),
                         !.community_targets = Flag(<<"author-author">>),
                         !.centrality_metrics = Flag(<<"degree">>),
                         !.centrality_targets = Flag(<<"all">>)],
     [DefaultArgv EXCEPT !.community_algorithms = Flag(<<"louvain">>)],
     [DefaultArgv EXCEPT !.centrality_metrics = Flag(<<"degree">>),
                         !.centrality_targets = Flag(<<"author-author">>),
                         !.min_author_author_weight = 2],
     [DefaultArgv EXCEPT !.community_algorithms = Flag(<<"leiden">>),
                         !.community_targets = Flag(<<"author-author">>),
                         !.min_author_author_weight = 3],
     [DefaultArgv EXCEPT !.language_community_algorithms = Flag(<<"greedy">>),
                         !.community_targets = Flag(<<"language-language">>),
                         !.min_language_language_weight = 2]}

InitRuns ==
    /\ pc = "read"
    /\ columns = REQUIRED_COLUMNS
    /\ table \in RunTables
    /\ records = <<>>
    /\ counts = <<>>
    /\ NothingAggregated
    /\ NothingScored
    /\ NothingBuilt
    /\ argv \in RunArgv
    /\ args = DefaultArgs
    /\ files = [path \in OutputPaths |-> <<>>]
    /\ run = 1

\* The next invocation of main(): a new process over the same table and the
\* same output directory, with its own command line.
StartRun ==
    /\ pc = "done"
    /\ run < MaxRuns
    /\ run' = run + 1
    /\ argv' \in RunArgv
    /\ args' = DefaultArgs
    /\ pc' = "read"
    /\ records' = <<>>
    /\ counts' = <<>>
    /\ author_stats' = EmptyMap
    /\ language_stats' = EmptyMap
    /\ author_language_breakdown' = EmptyMap
    /\ language_popularity' = EmptyMap
    /\ centralization_scores' = EmptyMap
    /\ centralization_scores_normalized' = EmptyMap
    /\ UNCHANGED <<engine_graph, engine_metrics>>
    /\ centrality_scores' = EmptyMap
    /\ centrality_tiers' = EmptyMap
    /\ community_assignments' = EmptyMap
    /\ bipartite' = NoGraph
    /\ author_graph' = NoGraph
    /\ language_graph' = NoGraph
    /\ UNCHANGED <<invocations, columns, table, files>>

NextRuns ==
    \/ LoadRecords
    \/ AuthorLanguageCounts
    \/ ComputeStats
    \/ ComputePopularity
    \/ ComputeCentralization
    \/ ParseArguments
    \/ BuildBipartite
    \/ BuildAuthorAuthor
    \/ BuildLanguageLanguage
    \/ MergeExisting
    \/ OpenAuthorLanguage
    \/ WriteAuthorLanguage
    \/ OpenAuthorAuthor
    \/ WriteAuthorAuthor
    \/ OpenLanguageLanguage
    \/ WriteLanguageLanguage
    \/ StartRun

SpecRuns == InitRuns /\ [][NextRuns]_vars

---------------------------------------------------------------------------
(* A run over a table that may lack columns, into a directory that may hold *)
(* files no run of this program wrote, on a disk that may fill up           *)

\* The headers of the input table.
Headers == SUBSET REQUIRED_COLUMNS

\* The rows read_csv gives under a header: the cells of its columns.
rows_under(header, rows) == [i \in DOMAIN rows |-> [column \in header |-> rows[i][column]]]

\* What an output path may hold when the run starts.
FoundFiles == {NoFile, NotJson("{\"nodes\": ["), OtherJson(JSON_LIST),
               OtherJson(JSON_NODES_NUMBER), OtherJson(JSON_EMPTY_OBJECT)}

FaultArgv ==
    {DefaultArgv,
     [DefaultArgv EXCEPT !.community_algorithms = Flag(<<"louvain">>),
                         !.community_targets = Flag(<<"author-author">>),
                         !.centrality_metrics = Flag(<<"degree">>),
                         !.centrality_targets = Flag(<<"all">>)]}

InitFaults ==
    /\ pc = "read"
    /\ columns \in Headers
    /\ table = rows_under(columns, RunTable)
    /\ records = <<>>
    /\ counts = <<>>
    /\ NothingAggregated
    /\ NothingScored
    /\ NothingBuilt
    /\ argv \in FaultArgv
    /\ args = DefaultArgs
    /\ files \in [OutputPaths -> FoundFiles]
    /\ run = 1

\* write_text fails after it has opened the file (OSError: no space left on
\* device): the run ends and the file stays as the open left it.
WriteFails ==
    /\ pc \in {"author-language open", "author-author open", "language-language open"}
    /\ pc' = "OSError"
    /\ UNCHANGED <<invocations, columns, table, records, counts, varsAgg, varsScore, varsTier, varsGraph,
                   varsRun>>

NextFaults ==
    \/ NextRun
    \/ WriteFails

SpecFaults == InitFaults /\ [][NextFaults]_vars

---------------------------------------------------------------------------
(* Runs over one table under many command lines *)

AlgorithmFlags ==
    {<<>>, Flag(<<"none">>), Flag(<<"louvain">>), Flag(<<"louvain", "none", "leiden">>),
     <<joined(<<Typed("none")>>)>>, <<joined(<<Typed("louvain"), Text("leiden")>>)>>,
     Flag(<<"bogus", "louvain">>)}

LanguageAlgorithmFlags ==
    {<<>>, Flag(<<"greedy">>), Flag(<<"none", "greedy">>), Flag(<<"louvain">>)}

MetricFlags ==
    {<<>>, Flag(<<"none">>), Flag(<<"degree">>), Flag(<<"degree", "bogus">>),
     Flag(<<"languagecentral">>), Flag(<<"eigenvector", "degree">>),
     Flag(<<"degree", "languagecentral">>)}

TargetFlags ==
    {<<>>, Flag(<<"all">>), Flag(<<"author-language">>), Flag(<<"author-author">>),
     Flag(<<"language-language", "author-language">>)}

\* The minimum weights that leave every graph of RunTable without links.
Emptying(namespace) ==
    [namespace EXCEPT !.min_author_language_weight = 2,
                      !.min_author_author_weight = 3,
                      !.min_language_language_weight = 3]

CommunityArgv ==
    {[DefaultArgv EXCEPT !.community_algorithms = algorithms,
                         !.language_community_algorithms = language_algorithms,
                         !.community_targets = targets] :
        algorithms \in AlgorithmFlags,
        language_algorithms \in LanguageAlgorithmFlags,
        targets \in TargetFlags}

CentralityArgv ==
    {[DefaultArgv EXCEPT !.centrality_metrics = metrics,
                         !.centrality_targets = targets] :
        metrics \in MetricFlags, targets \in TargetFlags}

BothArgv ==
    {[DefaultArgv EXCEPT !.community_algorithms = Flag(<<"louvain">>),
                         !.language_community_algorithms = Flag(<<"greedy">>),
                         !.centrality_metrics = Flag(<<"degree">>),
                         !.community_targets = community,
                         !.centrality_targets = centrality] :
        community \in TargetFlags, centrality \in TargetFlags}

OptionArgv ==
    CommunityArgv \cup CentralityArgv \cup BothArgv
        \cup {Emptying(namespace) : namespace \in CentralityArgv \cup BothArgv}

InitOptions ==
    /\ pc = "read"
    /\ columns = REQUIRED_COLUMNS
    /\ table = RunTable
    /\ records = <<>>
    /\ counts = <<>>
    /\ NothingAggregated
    /\ NothingScored
    /\ NothingBuilt
    /\ argv \in OptionArgv
    /\ args = DefaultArgs
    /\ files = [path \in OutputPaths |-> NoFile]
    /\ run = 1

SpecOptions == InitOptions /\ [][NextRun]_vars

\* A call of the engine, or a run.
InitCentrality == InitEngine \/ InitOptions

NextCentrality ==
    \/ ComputeCentralityScores
    \/ NextRun

SpecCentrality == InitCentrality /\ [][NextCentrality]_vars

---------------------------------------------------------------------------
(* C8, C9, C10 *)

ANNOTATIONS == {"centrality", "centralityTier", "communities"}

Merging == pc = "built" /\ pc' = "merged"

\* Every annotation entry of every fresh node is in the merged node, unchanged.
FreshEntriesKept(fresh, merged) ==
    /\ Len(merged.nodes) = Len(fresh.nodes)
    /\ \A i \in DOMAIN fresh.nodes :
          \A field \in ANNOTATIONS \cap DOMAIN fresh.nodes[i] :
              /\ field \in DOMAIN merged.nodes[i]
              /\ \A key \in DOMAIN fresh.nodes[i][field] :
                    /\ key \in DOMAIN merged.nodes[i][field]
                    /\ merged.nodes[i][field][key] = fresh.nodes[i][field][key]

\* C8: across the merge step of a run, every centrality, centralityTier and
\* communities entry that a node of the freshly built graph has keeps the
\* fresh value, whatever the snapshot of the previous run holds.
C8_FreshTakesPrecedence ==
    [][Merging => /\ FreshEntriesKept(author_graph, author_graph')
                  /\ FreshEntriesKept(language_graph, language_graph')]_vars

\* The node of a snapshot under an id, in a set of at most one node.
SnapshotNodes(file, id) ==
    IF Len(file) # 1 THEN {}
    ELSE {file[1].nodes[i] : i \in {j \in DOMAIN file[1].nodes : file[1].nodes[j].id = id}}

\* After a merge, a node holds the degree and the community this run computed
\* where the previous snapshot holds other values for them, and holds a tier
\* the snapshot holds too.
C8_Witness ==
    /\ pc = "merged"
    /\ \E i \in DOMAIN author_graph.nodes :
          LET node == author_graph.nodes[i]
          IN  \E old \in SnapshotNodes(files[AUTHOR_AUTHOR_PATH], node.id) :
                  /\ "degree" \in DOMAIN old.centrality
                  /\ "degree" \in DOMAIN centrality_scores
                  /\ node.centrality["degree"] = centrality_scores["degree"][node.id]
                  /\ node.centrality["degree"] # old.centrality["degree"]
                  /\ "degree" \in DOMAIN old.centralityTier
                  /\ node.centralityTier["degree"] = centrality_tiers["degree"][node.id]
    /\ \E i \in DOMAIN author_graph.nodes :
          LET node == author_graph.nodes[i]
          IN  \E old \in SnapshotNodes(files[AUTHOR_AUTHOR_PATH], node.id) :
                  /\ "louvain" \in DOMAIN old.communities
                  /\ "louvain" \in DOMAIN community_assignments
                  /\ node.id \in DOMAIN community_assignments["louvain"]
                  /\ node.communities["louvain"] = community_assignments["louvain"][node.id]
                  /\ node.communities["louvain"] # old.communities["louvain"]

\* write_text replaces the previous author-author snapshot by the text of the
\* graph.
WritingAuthorAuthor == pc = "author-language written" /\ pc' = "author-author open"

\* What this run computed itself for a node: the builder's own score map and
\* the assignments the community backends returned.
ComputedHere(computed, name, id) ==
    name \in DOMAIN computed /\ id \in DOMAIN computed[name]

\* C9: when a run writes the author-author snapshot, every node of it that
\* the previous snapshot held with a centrality score for a metric, or with
\* a community id for an algorithm, which this run did not compute for that
\* node still has the previous value in the snapshot written.
C9_PersistedValuesSurvive ==
    [][WritingAuthorAuthor =>
          \A i \in DOMAIN author_graph.nodes :
              LET node == author_graph.nodes[i]
              IN  \A old \in SnapshotNodes(files[AUTHOR_AUTHOR_PATH], node.id) :
                      /\ \A metric \in DOMAIN old.centrality :
                            ~ComputedHere(centrality_scores, metric, node.id)
                                => /\ metric \in DOMAIN json_document(author_graph)[1].nodes[i].centrality
                                   /\ json_document(author_graph)[1].nodes[i].centrality[metric]
                                          = old.centrality[metric]
                      /\ \A alg \in DOMAIN old.communities :
                            (old.communities[alg] >= 0
                                /\ ~ComputedHere(community_assignments, alg, node.id))
                                => /\ alg \in DOMAIN json_document(author_graph)[1].nodes[i].communities
                                   /\ json_document(author_graph)[1].nodes[i].communities[alg]
                                          = old.communities[alg]]_vars

\* The centrality half of C9 alone, which the merge does keep.
C9_CentralitySurvives ==
    [][WritingAuthorAuthor =>
          \A i \in DOMAIN author_graph.nodes :
              LET node == author_graph.nodes[i]
              IN  \A old \in SnapshotNodes(files[AUTHOR_AUTHOR_PATH], node.id) :
                      \A metric \in DOMAIN old.centrality :
                          ~ComputedHere(centrality_scores, metric, node.id)
                              => /\ metric \in DOMAIN json_document(author_graph)[1].nodes[i].centrality
                                 /\ json_document(author_graph)[1].nodes[i].centrality[metric]
                                        = old.centrality[metric]]_vars

\* new names in their order, then old names not already present
OrderPreservingUnion(new, old) ==
    new \o SelectSeq(old, LAMBDA name : name \notin Range(new))

MetaUnited(fresh, file, merged) ==
    LET old_meta == file[1].meta
    IN  /\ Range(Get(merged.meta, "centralityMetrics", <<>>))
              = Range(Get(fresh.meta, "centralityMetrics", <<>>))
                    \cup Range(Get(old_meta, "centralityMetrics", <<>>))
        /\ Get(merged.meta, "communityAlgorithms", <<>>)
              = OrderPreservingUnion(Get(fresh.meta, "communityAlgorithms", <<>>),
                                     Get(old_meta, "communityAlgorithms", <<>>))

Readable(file) == file # <<>>

\* C10 as stated: after the merge against a readable previous snapshot, the
\* graph's meta.centralityMetrics is the union of the old and the new metrics
\* and meta.communityAlgorithms is their order-preserving union.
C10_MetaUnion ==
    [][Merging =>
          /\ Readable(files[AUTHOR_AUTHOR_PATH])
                => MetaUnited(author_graph, files[AUTHOR_AUTHOR_PATH], author_graph')
          /\ Readable(files[LANGUAGE_LANGUAGE_PATH])
                => MetaUnited(language_graph, files[LANGUAGE_LANGUAGE_PATH],
                              language_graph')]_vars

\* The snapshot holds a node with a non-empty id or label.
HoldsKeyedNode(file) ==
    \E i \in DOMAIN file[1].nodes :
        \/ Get(file[1].nodes[i], "id", EmptyStr) # EmptyStr
        \/ Get(file[1].nodes[i], "label", EmptyStr) # EmptyStr

Mergeable(file) == Readable(file) /\ HoldsKeyedNode(file)

\* C10, amended: after the merge against a readable previous snapshot that
\* holds at least one node with a non-empty id or label, meta.centralityMetrics
\* is the union of the old and the new metrics and meta.communityAlgorithms is
\* their order-preserving union; against a snapshot without such a node the
\* graph's meta stays as built.
C10_MetaUnionOfKeyedSnapshot ==
    [][Merging =>
          /\ Mergeable(files[AUTHOR_AUTHOR_PATH])
                => MetaUnited(author_graph, files[AUTHOR_AUTHOR_PATH], author_graph')
          /\ Mergeable(files[LANGUAGE_LANGUAGE_PATH])
                => MetaUnited(language_graph, files[LANGUAGE_LANGUAGE_PATH],
                              language_graph')
          /\ (Readable(files[AUTHOR_AUTHOR_PATH])
                /\ ~HoldsKeyedNode(files[AUTHOR_AUTHOR_PATH]))
                => author_graph'.meta = author_graph.meta]_vars

\* A merged author-author graph whose meta lists an algorithm and a metric
\* that only the previous snapshot, one with nodes, had.
C10_Witness ==
    /\ pc = "merged"
    /\ Mergeable(files[AUTHOR_AUTHOR_PATH])
    /\ \E alg \in Range(author_graph.meta.communityAlgorithms) :
          /\ alg \notin Range(args.community_algorithms)
          /\ alg \in Range(files[AUTHOR_AUTHOR_PATH][1].meta.communityAlgorithms)
    /\ \E alg \in Range(author_graph.meta.communityAlgorithms) :
          alg \in Range(args.community_algorithms)
    /\ \E metric \in Range(author_graph.meta.centralityMetrics) :
          /\ metric \notin DOMAIN centrality_scores
          /\ metric \in Range(files[AUTHOR_AUTHOR_PATH][1].meta.centralityMetrics)

---------------------------------------------------------------------------
(* C11: the merge of a graph with the snapshot of an identical run *)

\* The entries of an annotation of a node; a node without the field has none.
Entries(node, field) == Get(node, field, EmptyMap)

\* Two node lists hold the same nodes with the same annotation entries.
SameAnnotations(first, second) ==
    /\ Len(first) = Len(second)
    /\ \A i \in DOMAIN first :
          /\ node_key(first[i]) = node_key(second[i])
          /\ first[i].type = second[i].type
          /\ \A field \in ANNOTATIONS : Entries(first[i], field) = Entries(second[i], field)

\* The snapshot at a path is the document of a run that built this graph.
SnapshotOfSameRun(file, fresh) ==
    /\ Len(file) = 1
    /\ SameAnnotations(file[1].nodes, fresh.nodes)

\* C11: across the merge step of a run, a graph whose snapshot holds the
\* same nodes with the same centrality, centralityTier and communities
\* entries as the freshly built graph (the snapshot an identical previous
\* run left) comes out of the merge with these entries unchanged on every
\* node, so that the second snapshot repeats the annotations of the first.
C11_MergeIdempotent ==
    [][Merging =>
          /\ SnapshotOfSameRun(files[AUTHOR_LANGUAGE_PATH], bipartite)
                => SameAnnotations(bipartite.nodes, bipartite'.nodes)
          /\ SnapshotOfSameRun(files[AUTHOR_AUTHOR_PATH], author_graph)
                => SameAnnotations(author_graph.nodes, author_graph'.nodes)
          /\ SnapshotOfSameRun(files[LANGUAGE_LANGUAGE_PATH], language_graph)
                => SameAnnotations(language_graph.nodes, language_graph'.nodes)]_vars

---------------------------------------------------------------------------
(* C12: an existing output file that is not a graph document *)

\* The file holds something else than a document of the program.
Malformed(file) == Len(file) = 2

\* The step of main() over its three merges.
MergingOrRaising == pc = "built" /\ pc' # "built"

UnchangedByMerge(path) ==
    CASE path = AUTHOR_LANGUAGE_PATH -> bipartite' = bipartite
      [] path = AUTHOR_AUTHOR_PATH -> author_graph' = author_graph
      [] path = LANGUAGE_LANGUAGE_PATH -> language_graph' = language_graph

\* C12: when the files the merges read are absent or malformed (text that
\* is not JSON, or JSON that is not a graph object with a list of node
\* objects), the merges raise nothing, so that the run reaches its writes,
\* and the graph of every malformed file is left as it was built.
C12_MalformedFileSkipped ==
    [][MergingOrRaising =>
          /\ \A path \in OutputPaths : Malformed(files[path]) => UnchangedByMerge(path)
          /\ (\A path \in OutputPaths : files[path] = NoFile \/ Malformed(files[path]))
                => pc' = "merged"]_vars

---------------------------------------------------------------------------
(* C13: what the output files hold while a run writes them *)

\* The file holds a whole document.
Complete(file) == Len(file) = 1

\* C13: every step of a run that changes an output file leaves a complete
\* document in it, so that a file is at every moment absent, as it was
\* found, or a complete document.
C13_NoPartialGraph ==
    [][\A path \in OutputPaths :
          files'[path] # files[path] => Complete(files'[path])]_vars

---------------------------------------------------------------------------
(* C14: an input table without the author or the language column *)

MissingColumn == ~(REQUIRED_COLUMNS \subseteq columns)

\* C14 as stated: once the loader has run on a table that lacks a required
\* column, the run has ended with a MalformedInputError.
C14_MalformedInputError ==
    (MissingColumn /\ pc # "read") => pc = "MalformedInputError"

\* C14, amended: on a table that lacks the author or the language column the
\* only step of the run is the loader's failure with a KeyError, which
\* leaves every output file as it was.
C14_MissingColumnAborts ==
    [][MissingColumn => /\ pc = "read"
                        /\ pc' = "KeyError"
                        /\ files' = files]_vars

\* The run has ended with the KeyError on a table without the language
\* column, in a directory that holds a file.
C14_Witness ==
    /\ pc = "KeyError"
    /\ columns = {"author"}
    /\ files[AUTHOR_AUTHOR_PATH] # NoFile

---------------------------------------------------------------------------
(* C15: the metrics _compute_centrality_scores returns *)

\* The names the engine has a branch for (lines 316-338).
ComputedNames == {"degree", "betweenness", "closeness", "eigenvector"}

\* The result holds every name of wanted but, at most, eigenvector, and no
\* other name.
ReturnsAllBut(wanted, result) ==
    /\ DOMAIN result \subseteq wanted
    /\ wanted \ {"eigenvector"} \subseteq DOMAIN result

Returning == pc = "call" /\ pc' = "returned"

---------------------------------------------------------------------------
(* C16: graphs without nodes or without edges *)

BipartiteFresh == pc \in {"author-language built", "author-author built", "built"}

\* A freshly built graph without links names no centrality metric.
NoLinksNoMetrics ==
    /\ (BipartiteFresh /\ bipartite.links = <<>>) => bipartite.meta.centralityMetrics = <<>>
    /\ (AuthorGraphFresh /\ author_graph.links = <<>>)
          => author_graph.meta.centralityMetrics = <<>>
    /\ (LanguageGraphFresh /\ language_graph.links = <<>>)
          => language_graph.meta.centralityMetrics = <<>>

\* C16: a call of _compute_centrality_scores on a graph with no node or no
\* edge returns the empty result whatever the requested list is, and after
\* every step of a run each freshly built graph that has no links has an
\* empty meta.centralityMetrics.
C16_EmptyGraphNoScores ==
    [][/\ (Returning /\ (engine_graph.nodes = {} \/ DOMAIN engine_graph.weight = {}))
             => centrality_scores' = EmptyMap
       /\ NoLinksNoMetrics']_vars

\* A call for the degree on a graph of nodes without edges has returned the
\* empty result.
C16_Witness ==
    /\ pc = "returned"
    /\ engine_graph.nodes # {}
    /\ DOMAIN engine_graph.weight = {}
    /\ engine_metrics = <<"degree">>
    /\ centrality_scores = EmptyMap

---------------------------------------------------------------------------
(* C17, C18: the links and the nodes of the graphs *)

NodeIds(graph) == {graph.nodes[i].id : i \in DOMAIN graph.nodes}

\* Every link joins two nodes of the graph with a positive whole weight.
WellFormedLinks(graph) ==
    \A i \in DOMAIN graph.links :
        /\ graph.links[i].source \in NodeIds(graph)
        /\ graph.links[i].target \in NodeIds(graph)
        /\ graph.links[i].weight \in Nat
        /\ graph.links[i].weight > 0

\* C17: in the author-language, the author-author and the language-language
\* graph, as built and as merged and written, every link's source and target
\* are ids of nodes of the graph and every link's weight is a positive
\* integer, for every table and every minimum weight from 0 on.
C17_LinksWellFormed ==
    /\ WellFormedLinks(bipartite)
    /\ WellFormedLinks(author_graph)
    /\ WellFormedLinks(language_graph)

\* After the merge the three graphs have links, the author-language graph
\* under a minimum weight that dropped a pair of the table.
C17_Witness ==
    /\ pc = "merged"
    /\ args.min_author_language_weight = 2
    /\ Len(bipartite.links) >= 2
    /\ Len(bipartite.links) < Len(counts)
    /\ author_graph.links # <<>>
    /\ language_graph.links # <<>>

\* C18: every node of the author-author graph is the source or the target
\* of a link of the graph, and shares with some other author at least as
\* many languages as the minimum asks for.
C18_NoIsolatedAuthors ==
    \A i \in DOMAIN author_graph.nodes :
        LET author == author_graph.nodes[i].id
        IN  /\ \E j \in DOMAIN author_graph.links :
                  author \in {author_graph.links[j].source, author_graph.links[j].target}
            /\ \E other \in RecordAuthors \ {author} :
                  /\ Cardinality(SharedLanguages(author, other)) >= 1
                  /\ Cardinality(SharedLanguages(author, other))
                         >= args.min_author_author_weight

\* The graph has nodes while an author of the table, who shares a language
\* with another but not as many as the minimum, is no node of it.
C18_Witness ==
    /\ AuthorGraphFresh
    /\ author_graph.nodes # <<>>
    /\ \E author \in RecordAuthors \ NodeIds(author_graph) :
          \E other \in RecordAuthors \ {author} : SharedLanguages(author, other) # {}

---------------------------------------------------------------------------
(* C19: the option none *)

BeforeParse == pc \in {"read", "loaded", "counted", "aggregated", "popularity", "scored"}

\* The command lines of the runs in which the algorithms option holds none.
NoneFlags ==
    {Flag(<<"none">>), Flag(<<"louvain", "none", "leiden">>), <<joined(<<Typed("none")>>)>>,
     Flag(<<"none", "greedy">>)}

\* No node of the graph has a community id from 0 on.
NoCommunityIds(graph) ==
    \A i \in DOMAIN graph.nodes :
        \A alg \in DOMAIN Get(graph.nodes[i], "communities", EmptyMap) :
            graph.nodes[i].communities[alg] < 0

\* No algorithm has a number of communities other than 0 in the meta.
NoCommunityCounts(graph) ==
    \A alg \in DOMAIN Get(graph.meta, "communities", EmptyMap) :
        graph.meta.communities[alg] = 0

\* C19: when the algorithms option of a graph holds none, alone or among
\* other names, _parse_algorithms returns the empty list, no algorithm runs
\* on that graph, and the freshly built graph has no community count other
\* than 0 in its meta and no community id on its nodes.
C19_NoneDisablesCommunities ==
    /\ argv.community_algorithms \in NoneFlags =>
          /\ ~BeforeParse => args.community_algorithms = <<>>
          /\ AuthorGraphFresh => /\ community_assignments = EmptyMap
                                  /\ NoCommunityCounts(author_graph)
                                  /\ NoCommunityIds(author_graph)
    /\ argv.language_community_algorithms \in NoneFlags =>
          /\ ~BeforeParse => args.language_community_algorithms = <<>>
          /\ LanguageGraphFresh => /\ NoCommunityCounts(language_graph)
                                    /\ NoCommunityIds(language_graph)

\* The author-author graph is built, with links and as a community target,
\* under the option louvain,none,leiden.
C19_Witness ==
    /\ AuthorGraphFresh
    /\ argv.community_algorithms = Flag(<<"louvain", "none", "leiden">>)
    /\ "author-author" \in args.community_targets
    /\ author_graph.links # <<>>
    /\ author_graph.meta.communityAlgorithms = <<>>

---------------------------------------------------------------------------
(* C20: the targets of centrality and community detection *)

\* The graphs a targets flag of the runs names.
Named(flag) ==
    IF flag = <<>> THEN {}
    ELSE IF flag = Flag(<<"all">>) THEN {"author-language", "author-author", "language-language"}
    ELSE IF flag = Flag(<<"author-language">>) THEN {"author-language"}
    ELSE IF flag = Flag(<<"author-author">>) THEN {"author-author"}
    ELSE {"language-language", "author-language"}

\* No node of the graph has a centrality score, and the meta names no metric.
NoCentrality(graph) ==
    /\ graph.meta.centralityMetrics = <<>>
    /\ \A i \in DOMAIN graph.nodes : Get(graph.nodes[i], "centrality", EmptyMap) = EmptyMap

\* C20: a freshly built graph that the centrality targets do not name has
\* no centrality score, one that the community targets do not name has no
\* community id from 0 on, and the author-language graph has no community
\* id whatever the community targets are.
C20_OnlyTargetedGraphs ==
    /\ BipartiteFresh =>
          /\ "author-language" \notin Named(argv.centrality_targets) => NoCentrality(bipartite)
          /\ NoCommunityIds(bipartite)
          /\ "communities" \notin DOMAIN bipartite.meta
    /\ AuthorGraphFresh =>
          /\ "author-author" \notin Named(argv.centrality_targets)
                => (NoCentrality(author_graph) /\ centrality_scores = EmptyMap)
          /\ "author-author" \notin Named(argv.community_targets)
                => /\ NoCommunityIds(author_graph)
                   /\ \A alg \in DOMAIN community_assignments :
                         community_assignments[alg] = EmptyMap
    /\ LanguageGraphFresh =>
          /\ "language-language" \notin Named(argv.centrality_targets)
                => NoCentrality(language_graph)
          /\ "language-language" \notin Named(argv.community_targets)
                => NoCommunityIds(language_graph)

\* The three graphs are built under community targets all and the
\* centrality target author-language: the author-language graph has scores
\* and no community, the author-author graph communities and no score.
C20_Witness ==
    /\ pc = "built"
    /\ argv.community_targets = Flag(<<"all">>)
    /\ argv.centrality_targets = Flag(<<"author-language">>)
    /\ \E i \in DOMAIN bipartite.nodes : "centrality" \in DOMAIN bipartite.nodes[i]
    /\ \E i \in DOMAIN author_graph.nodes : author_graph.nodes[i].communities["louvain"] >= 0
    /\ NoCentrality(author_graph)
    /\ ~NoCommunityIds(language_graph)

---------------------------------------------------------------------------
(* C21: the persisted entries the merge copies *)

\* The snapshot node a fresh node is matched to, in a set of at most one
\* node: the node under the fresh node's id, or label when it has no id; of
\* several snapshot nodes under one key the last one.
Matched(file, node) ==
    IF Len(file) # 1 \/ node_key(node) = EmptyStr THEN {}
    ELSE LET olds == file[1].nodes
             under == {j \in DOMAIN olds : node_key(olds[j]) = node_key(node)}
         IN  {olds[j] : j \in {k \in under : \A other \in under : other <= k}}

\* Every entry of a matched snapshot node under a key the fresh node lacks
\* is in the merged node, with the snapshot's value.
OldEntriesCopied(file, fresh, merged) ==
    \A i \in DOMAIN fresh.nodes :
        \A old \in Matched(file, fresh.nodes[i]) :
            \A field \in ANNOTATIONS :
                \A key \in DOMAIN Entries(old, field) \ DOMAIN Entries(fresh.nodes[i], field) :
                    /\ key \in DOMAIN Entries(merged.nodes[i], field)
                    /\ merged.nodes[i][field][key] = old[field][key]

\* C21: across the merge step of a run, for every fresh node that the
\* snapshot of the previous run holds under the same id, every centrality,
\* centralityTier and communities entry of the snapshot node whose key the
\* fresh node lacks is in the merged node with the snapshot's value.
C21_OldEntriesCopied ==
    [][Merging =>
          /\ OldEntriesCopied(files[AUTHOR_LANGUAGE_PATH], bipartite, bipartite')
          /\ OldEntriesCopied(files[AUTHOR_AUTHOR_PATH], author_graph, author_graph')
          /\ OldEntriesCopied(files[LANGUAGE_LANGUAGE_PATH], language_graph,
                              language_graph')]_vars

\* A merged author node holds the degree score and tier of the snapshot, which
\* this run did not compute, and the community of an algorithm this run did
\* not ask for.
C21_Witness ==
    /\ pc = "merged"
    /\ "degree" \notin DOMAIN centrality_scores
    /\ \E i \in DOMAIN author_graph.nodes :
          \E old \in Matched(files[AUTHOR_AUTHOR_PATH], author_graph.nodes[i]) :
              /\ "degree" \in DOMAIN old.centrality
              /\ "degree" \in DOMAIN old.centralityTier
              /\ author_graph.nodes[i].centrality["degree"] = old.centrality["degree"]
              /\ author_graph.nodes[i].centralityTier["degree"] = old.centralityTier["degree"]
              /\ \E alg \in DOMAIN old.communities :
                    /\ alg \notin Range(args.community_algorithms)
                    /\ author_graph.nodes[i].communities[alg] = old.communities[alg]

---------------------------------------------------------------------------
(* C22: what the merge leaves as the builder made it *)

\* The merged graph has the links of the fresh graph and its nodes in their
\* order, each with the attributes it had, the three annotations apart.
FrameKept(fresh, merged) ==
    /\ DOMAIN merged = DOMAIN fresh
    /\ merged.links = fresh.links
    /\ Len(merged.nodes) = Len(fresh.nodes)
    /\ \A i \in DOMAIN fresh.nodes :
          /\ DOMAIN merged.nodes[i] \ ANNOTATIONS = DOMAIN fresh.nodes[i] \ ANNOTATIONS
          /\ \A attribute \in DOMAIN fresh.nodes[i] \ ANNOTATIONS :
                merged.nodes[i][attribute] = fresh.nodes[i][attribute]

\* C22: across the merge step of a run, each of the three graphs keeps the
\* links list of the fresh graph, the list and order of its nodes and every
\* node attribute other than centrality, centralityTier and communities, so
\* that no node and no link of the previous snapshot alone enters the graph.
C22_MergeKeepsNodesAndLinks ==
    [][Merging =>
          /\ FrameKept(bipartite, bipartite')
          /\ FrameKept(author_graph, author_graph')
          /\ FrameKept(language_graph, language_graph')]_vars

\* A merged language-language graph that took a degree score from a snapshot
\* which has a node and a link the fresh graph lacks.
C22_Witness ==
    /\ pc = "merged"
    /\ Len(files[LANGUAGE_LANGUAGE_PATH]) = 1
    /\ "language-language" \notin args.centrality_targets
    /\ \E i \in DOMAIN language_graph.nodes :
          "degree" \in DOMAIN Entries(language_graph.nodes[i], "centrality")
    /\ \E j \in DOMAIN files[LANGUAGE_LANGUAGE_PATH][1].nodes :
          files[LANGUAGE_LANGUAGE_PATH][1].nodes[j].id \notin NodeIds(language_graph)
    /\ \E j \in DOMAIN files[LANGUAGE_LANGUAGE_PATH][1].links :
          files[LANGUAGE_LANGUAGE_PATH][1].links[j] \notin Range(language_graph.links)

---------------------------------------------------------------------------
(* C23: the filters of the author-language graph *)

\* The number of cleaned rows of an author, and of a language.
AuthorTotal(a) == Cardinality({i \in DOMAIN records : records[i].author = a})
LanguageTotal(l) == Cardinality({i \in DOMAIN records : records[i].language = l})

\* The sets a limit may keep of a population: everyone under limit 0 or a
\* limit that reaches the population's size; otherwise limit members, none of
\* them lighter than a member left out.
TopSets(population, total(_), limit) ==
    IF limit = 0 \/ limit >= Cardinality(population) THEN {population}
    ELSE {kept \in SUBSET population :
             /\ Cardinality(kept) = limit
             /\ \A k \in kept : \A o \in population \ kept : total(k) >= total(o)}

TypedNodes(graph, type) == {i \in DOMAIN graph.nodes : graph.nodes[i].type = type}

\* The links of the graph are the pairs of a kept author and a kept language
\* whose number of rows is positive and reaches the minimum, each once.
LinksOfKept(graph, authors, languages, minimum) ==
    /\ Range(graph.links) =
           {[source |-> a, target |-> l, weight |-> Volume(a, l)] :
               <<a, l>> \in {pair \in authors \X languages :
                                /\ Volume(pair[1], pair[2]) >= 1
                                /\ Volume(pair[1], pair[2]) >= minimum}}
    /\ Cardinality(Range(graph.links)) = Len(graph.links)

\* C23: in the freshly built author-language graph every link has a weight
\* that reaches the configured minimum and joins one of the top-N authors by
\* total weight to one of the top-N languages by total weight, and every
\* such pair of the table is a link; a limit of 0 or of at least the
\* population's size leaves no one out; under a smaller limit N the graph has
\* at most N nodes of the type and no kept member is lighter than a member
\* the limit left out.
C23_TopAndMinimumFilters ==
    BipartiteFresh =>
        \E authors \in TopSets(RecordAuthors, AuthorTotal, args.top_authors) :
        \E languages \in TopSets(RecordLanguages, LanguageTotal, args.top_languages) :
            /\ LinksOfKept(bipartite, authors, languages, args.min_author_language_weight)
            /\ \A i \in DOMAIN bipartite.links :
                  bipartite.links[i].weight >= args.min_author_language_weight
            /\ \A i \in TypedNodes(bipartite, "author") : bipartite.nodes[i].id \in authors
            /\ \A i \in TypedNodes(bipartite, "language") : bipartite.nodes[i].id \in languages
            /\ (0 < args.top_authors /\ args.top_authors < Cardinality(RecordAuthors))
                  => Cardinality(TypedNodes(bipartite, "author")) <= args.top_authors
            /\ (0 < args.top_languages /\ args.top_languages < Cardinality(RecordLanguages))
                  => Cardinality(TypedNodes(bipartite, "language")) <= args.top_languages

\* A graph under a limit of one author and a minimum weight of 2: the
\* heaviest of three authors is its only author node, a lighter author with a
\* pair of weight 2 is left out, and a pair of the kept author below the
\* minimum is no link.
C23_Witness ==
    /\ BipartiteFresh
    /\ args.top_authors = 1
    /\ args.min_author_language_weight = 2
    /\ Cardinality(RecordAuthors) = 3
    /\ Cardinality(TypedNodes(bipartite, "author")) = 1
    /\ \E i \in TypedNodes(bipartite, "author") :
          /\ \A o \in RecordAuthors \ {bipartite.nodes[i].id} :
                AuthorTotal(o) < AuthorTotal(bipartite.nodes[i].id)
          /\ \E l \in RecordLanguages : Volume(bipartite.nodes[i].id, l) = 1
    /\ \E o \in RecordAuthors : \E l \in RecordLanguages :
          /\ Volume(o, l) >= 2
          /\ \A i \in DOMAIN bipartite.nodes : bipartite.nodes[i].id # o

---------------------------------------------------------------------------
(* C24: the centrality of the author-language graph *)

\* The conditions under which the builder calls the Centrality Engine.
BipartiteCentralityRuns ==
    /\ "author-language" \in args.centrality_targets
    /\ SelectSeq(args.centrality_metrics, LAMBDA m : m # "languagecentral") # <<>>
    /\ bipartite.links # <<>>

\* The scores of a metric on the language nodes of the graph.
LanguageScores(graph, metric) ==
    [id \in {graph.nodes[i].id : i \in {j \in TypedNodes(graph, "language") :
                                          metric \in DOMAIN graph.nodes[j].centrality}} |->
        graph.nodes[CHOOSE i \in TypedNodes(graph, "language") : graph.nodes[i].id = id]
            .centrality[metric]]

\* Every tier of a language node is the tier of its score among the scores
\* of the language nodes.
TiersAmongLanguages(graph) ==
    \A i \in TypedNodes(graph, "language") :
        \A metric \in DOMAIN graph.nodes[i].centrality :
            /\ metric \in DOMAIN graph.nodes[i].centralityTier
            /\ graph.nodes[i].centralityTier[metric]
                   = tier_of(graph.nodes[i].centrality[metric],
                             quantile(LanguageScores(graph, metric), LowerPercentile),
                             quantile(LanguageScores(graph, metric), UpperPercentile))

\* Centrality is attached to the language nodes and to no author node.
OnLanguageNodesOnly(graph) ==
    /\ \A i \in TypedNodes(graph, "language") :
          {"centrality", "centralityTier"} \subseteq DOMAIN graph.nodes[i]
    /\ \A i \in TypedNodes(graph, "author") :
          DOMAIN graph.nodes[i] \cap {"centrality", "centralityTier"} = {}

\* C24: in the freshly built author-language graph, when centrality is
\* targeted, metrics are requested and links exist, centrality and
\* centralityTier are attached to every language node and to no author node,
\* and the tier of a language node under a metric comes from the thresholds
\* of the language nodes' scores alone.
C24_LanguageNodesOnly ==
    (BipartiteFresh /\ BipartiteCentralityRuns /\ bipartite.meta.centralityMetrics # <<>>)
        => /\ OnLanguageNodesOnly(bipartite)
           /\ TiersAmongLanguages(bipartite)

---------------------------------------------------------------------------
(* C25: the community data of the language-language graph *)

\* The graph holds community data: the algorithms or the community counts
\* in its meta, or a communities mapping on a node.
CommunityData(graph) ==
    \/ DOMAIN graph.meta \cap {"communityAlgorithms", "communities"} # {}
    \/ \E i \in DOMAIN graph.nodes : "communities" \in DOMAIN graph.nodes[i]

\* Greedy detection is requested and runs: the graph is a community target
\* and has links.
GreedyRuns ==
    /\ "greedy" \in Range(args.language_community_algorithms)
    /\ "language-language" \in args.community_targets
    /\ language_graph.links # <<>>

\* The community data of the graph names no algorithm but greedy.
GreedyOnly(graph) ==
    /\ Range(Get(graph.meta, "communityAlgorithms", <<>>)) \subseteq {"greedy"}
    /\ DOMAIN Get(graph.meta, "communities", EmptyMap) \subseteq {"greedy"}
    /\ \A i \in DOMAIN graph.nodes :
          DOMAIN Get(graph.nodes[i], "communities", EmptyMap) \subseteq {"greedy"}

\* C25: the freshly built language-language graph holds community data
\* (meta.communityAlgorithms, meta.communities, a communities mapping on a
\* node) only if greedy detection was requested and ran, that is if the graph
\* is a community target and has links; and its community data names no
\* algorithm but greedy.
C25_CommunityDataOnlyIfRun ==
    LanguageGraphFresh =>
        /\ CommunityData(language_graph) => GreedyRuns
        /\ GreedyOnly(language_graph)

---------------------------------------------------------------------------
(* C26: community algorithms without a result *)

\* What the backend of an algorithm returned in this build, node -> id.
Assigned(alg) == Get(community_assignments, alg, EmptyMap)

\* Louvain, which networkx always provides, runs in this build.
LouvainRuns ==
    /\ "louvain" \in Range(args.community_algorithms)
    /\ "author-author" \in args.community_targets
    /\ author_graph.links # <<>>

\* C26: in the freshly built author-author graph every node has an entry
\* for every requested community algorithm, the id the backend assigned or
\* -1 where it assigned none; an algorithm whose backend is missing or
\* returned nothing has -1 on every node and 0 communities in
\* meta.communities; and louvain, when it runs, gives every node a community
\* whatever the other algorithms returned.
C26_MissingBackendGivesPlaceholder ==
    AuthorGraphFresh =>
        /\ \A alg \in Range(args.community_algorithms) :
              /\ alg \in DOMAIN author_graph.meta.communities
              /\ \A i \in DOMAIN author_graph.nodes :
                    /\ alg \in DOMAIN author_graph.nodes[i].communities
                    /\ author_graph.nodes[i].communities[alg]
                           = Get(Assigned(alg), author_graph.nodes[i].id, -1)
              /\ Assigned(alg) = EmptyMap =>
                    /\ author_graph.meta.communities[alg] = 0
                    /\ \A i \in DOMAIN author_graph.nodes :
                          author_graph.nodes[i].communities[alg] = -1
        /\ LouvainRuns =>
              /\ author_graph.meta.communities["louvain"] >= 1
              /\ \A i \in DOMAIN author_graph.nodes :
                    author_graph.nodes[i].communities["louvain"] >= 0

\* Louvain and leiden are requested and the graph is a target with links:
\* leiden's backend is missing, so that every node has -1 for leiden and a
\* community of louvain.
C26_Witness ==
    /\ AuthorGraphFresh
    /\ LouvainRuns
    /\ "leiden" \in Range(args.community_algorithms)
    /\ Assigned("leiden") = EmptyMap
    /\ author_graph.meta.communities["leiden"] = 0
    /\ author_graph.nodes # <<>>
    /\ \A i \in DOMAIN author_graph.nodes :
          /\ author_graph.nodes[i].communities["leiden"] = -1
          /\ author_graph.nodes[i].communities["louvain"] >= 0

---------------------------------------------------------------------------
(* C27: the pseudo-metric languagecentral *)

\* The graph holds languagecentral nowhere: not in the centrality or the
\* centralityTier of a node, not in meta.centralityMetrics.
NoLanguageCentral(graph) ==
    /\ "languagecentral" \notin Range(graph.meta.centralityMetrics)
    /\ \A i \in DOMAIN graph.nodes :
          /\ "languagecentral" \notin DOMAIN Entries(graph.nodes[i], "centrality")
          /\ "languagecentral" \notin DOMAIN Entries(graph.nodes[i], "centralityTier")

LanguageCentralAsked ==
    /\ "languagecentral" \in Range(args.centrality_metrics)
    /\ "author-author" \in args.centrality_targets

\* C27: whatever metrics are requested, the freshly built author-language
\* and language-language graphs hold languagecentral nowhere, and the
\* freshly built author-author graph, when it is a centrality target and
\* languagecentral is requested, has on every node the author's
\* centralization score as centrality languagecentral, with a tier, and
\* names the metric in its meta when it has nodes.
C27_LanguageCentralOnAuthorsOnly ==
    /\ BipartiteFresh => NoLanguageCentral(bipartite)
    /\ LanguageGraphFresh => NoLanguageCentral(language_graph)
    /\ (AuthorGraphFresh /\ LanguageCentralAsked) =>
          /\ \A i \in DOMAIN author_graph.nodes :
                /\ "languagecentral" \in DOMAIN author_graph.nodes[i].centrality
                /\ author_graph.nodes[i].centrality["languagecentral"]
                       = author_graph.nodes[i].centralizationScore
                /\ "languagecentral" \in DOMAIN author_graph.nodes[i].centralityTier
          /\ author_graph.nodes # <<>>
                => "languagecentral" \in Range(author_graph.meta.centralityMetrics)

\* The three graphs are built with links under the metrics degree and
\* languagecentral and the targets all: the author-language and the
\* language-language graph have the degree alone, the author-author graph
\* both.
C27_Witness ==
    /\ pc = "built"
    /\ args.centrality_metrics = <<"degree", "languagecentral">>
    /\ args.centrality_targets = {"author-language", "author-author", "language-language"}
    /\ bipartite.meta.centralityMetrics = <<"degree">>
    /\ language_graph.meta.centralityMetrics = <<"degree">>
    /\ author_graph.meta.centralityMetrics = <<"degree", "languagecentral">>
    /\ author_graph.nodes # <<>>

---------------------------------------------------------------------------
(* C28: the ids of the nodes of a graph *)

\* No two entries of the nodes list have the same id.
UniqueNodeIds(graph) ==
    \A i, j \in DOMAIN graph.nodes : graph.nodes[i].id = graph.nodes[j].id => i = j

\* C28: in each of the three graphs a run builds, no two entries of the
\* nodes list share an id, whatever the input table is, also when a string
\* is the name of an author and of a language.
C28_UniqueNodeIds ==
    /\ UniqueNodeIds(bipartite)
    /\ UniqueNodeIds(author_graph)
    /\ UniqueNodeIds(language_graph)

---------------------------------------------------------------------------
(* Successive runs whose tables and command lines differ *)

\* The command lines of these runs: the degree and languagecentral on every
\* graph, no centrality at all, closeness on a smaller author-author graph.
SequenceArgv ==
    {[DefaultArgv EXCEPT !.centrality_metrics = Flag(<<"degree", "languagecentral">>),
                         !.centrality_targets = Flag(<<"all">>)],
     DefaultArgv,
     [DefaultArgv EXCEPT !.centrality_metrics = Flag(<<"closeness">>),
                         !.centrality_targets = Flag(<<"author-author">>),
                         !.min_author_author_weight = 2]}

InitSequence ==
    /\ pc = "read"
    /\ columns = REQUIRED_COLUMNS
    /\ table \in RunTables
    /\ records = <<>>
    /\ counts = <<>>
    /\ NothingAggregated
    /\ NothingScored
    /\ NothingBuilt
    /\ argv \in SequenceArgv
    /\ args = DefaultArgs
    /\ files = [path \in OutputPaths |-> NoFile]
    /\ run = 1

\* The next invocation of main(), over a table and a command line of its
\* own, into the same output directory.
StartRunOnTable ==
    /\ pc = "done"
    /\ run < MaxRuns
    /\ run' = run + 1
    /\ table' \in RunTables
    /\ argv' \in SequenceArgv
    /\ args' = DefaultArgs
    /\ pc' = "read"
    /\ records' = <<>>
    /\ counts' = <<>>
    /\ author_stats' = EmptyMap
    /\ language_stats' = EmptyMap
    /\ author_language_breakdown' = EmptyMap
    /\ language_popularity' = EmptyMap
    /\ centralization_scores' = EmptyMap
    /\ centralization_scores_normalized' = EmptyMap
    /\ UNCHANGED <<engine_graph, engine_metrics>>
    /\ centrality_scores' = EmptyMap
    /\ centrality_tiers' = EmptyMap
    /\ community_assignments' = EmptyMap
    /\ bipartite' = NoGraph
    /\ author_graph' = NoGraph
    /\ language_graph' = NoGraph
    /\ UNCHANGED <<invocations, columns, files>>

NextSequence ==
    \/ NextRun
    \/ StartRunOnTable

SpecSequence == InitSequence /\ [][NextSequence]_vars

---------------------------------------------------------------------------
(* C29: the metrics a persisted graph names *)

\* Every metric under which a node of the document has a score is listed in
\* the document's meta.centralityMetrics.
MetricsListed(file) ==
    Len(file) = 1 =>
        \A i \in DOMAIN file[1].nodes :
            DOMAIN Entries(file[1].nodes[i], "centrality")
                \subseteq Range(file[1].meta.centralityMetrics)

\* C29: after any sequence of runs into an output directory that was empty
\* at first, whatever their tables and command lines, every metric that is a
\* key of the centrality mapping of a node of a persisted graph is listed in
\* that graph's meta.centralityMetrics.
C29_NodeMetricsListedInMeta ==
    \A path \in OutputPaths : MetricsListed(files[path])

\* After a second run, which computed no centrality, the persisted
\* author-author graph has a node with the degree of the first run, and its
\* meta lists the degree.
C29_Witness ==
    /\ pc = "done"
    /\ run >= 2
    /\ centrality_scores = EmptyMap
    /\ Len(files[AUTHOR_AUTHOR_PATH]) = 1
    /\ \E i \in DOMAIN files[AUTHOR_AUTHOR_PATH][1].nodes :
          "degree" \in DOMAIN files[AUTHOR_AUTHOR_PATH][1].nodes[i].centrality
    /\ "degree" \in Range(files[AUTHOR_AUTHOR_PATH][1].meta.centralityMetrics)

---------------------------------------------------------------------------
(* Two invocations of main() at once, over one table and one output path *)

Invocations == {1, 2}

\* The command lines of the two invocations: each asks for one kind of
\* annotation of the author-author graph.
ConcurrentArgv ==
    {[DefaultArgv EXCEPT !.centrality_metrics = Flag(<<"degree">>),
                         !.centrality_targets = Flag(<<"author-author">>)],
     [DefaultArgv EXCEPT !.community_algorithms = Flag(<<"louvain">>),
                         !.community_targets = Flag(<<"author-author">>)]}

\* What an invocation holds before it has built anything.
Started(namespace) ==
    [pc |-> "started", argv |-> namespace, fresh |-> NoGraph, snapshot |-> NoFile,
     graph |-> NoGraph, order |-> 0]

\* main() from line 954 to line 1019 in one process: the author-author
\* graphs it may build from a table under a command line, one for each answer
\* of the community backends and of networkx.
fresh_author_graphs(tbl, namespace) ==
    LET cnt == author_language_counts(load_records(tbl))
        astats == author_stats_of(cnt)
        breakdown == author_language_breakdown_of(cnt)
        popularity == language_popularity_ratios(language_stats_of(cnt))
        cscores == compute_author_centralization(breakdown, popularity)
        options == parsed(namespace)
        edge_list == author_edge_list(cnt, options.min_author_author_weight)
        graph == graph_of(edge_list)
        enable_communities == "author-author" \in options.community_targets
        enable_centrality == "author-author" \in options.centrality_targets
        nonempty == number_of_edges(graph) > 0 /\ number_of_nodes(graph) > 0
    IN  UNION {{LET communities == author_communities(graph, options.community_algorithms,
                                                      enable_communities, provider)
                    scores == author_centrality_scores(graph, seen_endpoints(edge_list),
                                  options.centrality_metrics, cscores[1],
                                  enable_centrality, engine)
                IN  author_author_result(cnt, astats, breakdown,
                        options.min_author_author_weight, options.community_algorithms,
                        cscores[1], cscores[2], popularity, communities, scores,
                        assign_centrality_tiers(scores)) :
                engine \in EngineResults(graph, options.centrality_metrics,
                                         nonempty /\ enable_centrality)} :
               provider \in CommunityProviders(graph, options.community_algorithms,
                                               nonempty /\ enable_communities)}

InitConcurrent ==
    /\ pc = "concurrent"
    /\ columns = REQUIRED_COLUMNS
    /\ table = RunTable
    /\ records = <<>>
    /\ counts = <<>>
    /\ NothingAggregated
    /\ NothingScored
    /\ community_assignments = EmptyMap
    /\ bipartite = NoGraph
    /\ author_graph = NoGraph
    /\ language_graph = NoGraph
    /\ argv = DefaultArgv
    /\ args = DefaultArgs
    /\ files = [path \in OutputPaths |-> NoFile]
    /\ run = 0
    /\ \E namespaces \in [Invocations -> ConcurrentArgv] :
          invocations = [p \in Invocations |-> Started(namespaces[p])]

\* What no step of an invocation changes: the table and the variables of the
\* invocation that runs alone.
varsAlone ==
    <<pc, columns, table, records, counts, varsAgg, varsScore, varsTier, varsGraph, argv,
      args, run>>

\* Lines 954-1019 in invocation p.
BuildOf(p) ==
    /\ invocations[p].pc = "started"
    /\ \E graph \in fresh_author_graphs(table, invocations[p].argv) :
          invocations' = [invocations EXCEPT ![p].pc = "built", ![p].fresh = graph,
                                             ![p].graph = graph]
    /\ UNCHANGED <<varsAlone, files>>

\* Line 1038 in invocation p: the file is read as it is at this moment.
MergeOf(p) ==
    /\ invocations[p].pc = "built"
    /\ LET file == files[AUTHOR_AUTHOR_PATH]
       IN  invocations' =
               IF merge_raises(file) = ""
               THEN [invocations EXCEPT
                        ![p].pc = "merged",
                        ![p].snapshot = file,
                        ![p].graph = merge_existing_graph_data(invocations[p].fresh, file)]
               ELSE [invocations EXCEPT ![p].pc = merge_raises(file), ![p].snapshot = file]
    /\ UNCHANGED <<varsAlone, files>>

\* Line 1042 in invocation p, Path.write_text: the file is opened for
\* writing, which empties it.
OpenOf(p) ==
    /\ invocations[p].pc = "merged"
    /\ files' = [files EXCEPT ![AUTHOR_AUTHOR_PATH] = Truncated]
    /\ invocations' = [invocations EXCEPT ![p].pc = "open"]
    /\ UNCHANGED varsAlone

\* The number of invocations that have closed the file.
Closed == Cardinality({q \in Invocations : invocations[q].order > 0})

\* Path.write_text goes on in invocation p: the text is written from offset 0
\* and the file closed. A text another invocation wrote since this one
\* opened the file is overwritten from the start, and what of it lies beyond
\* the end of the new text stays after it: the file then holds this
\* invocation's document or, when the other text was the longer one, a text
\* that is no JSON. The lengths of the texts are not part of the model.
WriteOf(p) ==
    /\ invocations[p].pc = "open"
    /\ \/ files' = [files EXCEPT ![AUTHOR_AUTHOR_PATH] = json_document(invocations[p].graph)]
       \/ /\ files[AUTHOR_AUTHOR_PATH] # Truncated
          /\ files' = [files EXCEPT ![AUTHOR_AUTHOR_PATH] = NotJson("two documents")]
    /\ invocations' = [invocations EXCEPT ![p].pc = "done", ![p].order = Closed + 1]
    /\ UNCHANGED varsAlone

NextConcurrent == \E p \in Invocations : BuildOf(p) \/ MergeOf(p) \/ OpenOf(p) \/ WriteOf(p)

SpecConcurrent == InitConcurrent /\ [][NextConcurrent]_vars

---------------------------------------------------------------------------
(* C30 *)

AllDone == \A p \in Invocations : invocations[p].pc = "done"

\* The invocation that closed the file last, and the other one.
LastWriter == CHOOSE p \in Invocations : invocations[p].order = Cardinality(Invocations)
OtherWriter == CHOOSE p \in Invocations : p # LastWriter

\* The graph on disk after the two invocations ran one after the other from
\* an empty output directory.
InSeries(first, second) ==
    merge_existing_graph_data(invocations[second].fresh,
        json_document(merge_existing_graph_data(invocations[first].fresh, NoFile)))

=============================================================================
